---------------------------- MODULE Spec2Model ----------------------------
(***************************************************************************)
(* A model of the PDMS extraction pipeline: the field planner              *)
(* (pipeline/extraction_pipeline.py), the audit sink                        *)
(* (pipeline/audit_logger.py), the scoped session (connection/session.py)   *)
(* and the streaming fetch layer (connection/fetcher.py).                   *)
(*                                                                         *)
(* Python's None is the record None; an Optional value v is Some(v).       *)
(***************************************************************************)
EXTENDS Integers, Sequences, FiniteSets, TLC

VARIABLES
    \* ---- _plan_fetch_and_include_for: one call -------------------------
    p_by,          \* the grouping mode handed to the planner
    p_requested,   \* Optional[Sequence[str]]: the caller's field list
    p_iter,        \* iteration order of each derived_deps value (a Python set)
    p_pc,          \* "call" | "returned" | "raised"
    p_result,      \* (fetch_fields, include_fields) once returned
    \* ---- AuditLogger: one sink and the log_access calls made on it ----
    a_logger,      \* the AuditLogger's attributes after __init__
    a_fh,          \* what has been written to the sink, one piece per write()
    a_calls,       \* the keyword arguments of each log_access call, in order
    a_flushed,     \* how many of the pieces of a_fh flush() has pushed out
    \* ---- one stream of Fetcher.iter / Fetcher.batched_iter, or one use of
    \* ---- get_db, and the sessions it opened ----------------------------
    f_api,         \* "iter" | "batched_iter" | "get_db"
    f_defaults,    \* self.defaults[list_param], or Absent
    f_overrides,   \* overrides[list_param], or Absent
    f_max_items,   \* max_items
    f_transform,   \* whether self.transform is set
    f_pc,          \* position of the generator (see FetchNext)
    f_path,        \* "none" | "stream" (iter) | "chunked" | "di" (get_db)
    f_i,           \* offset of the current chunk in seq_list
    f_buf,         \* rows of the current result not yet yielded
    f_db,          \* index in `sessions` of the with-block's session, 0: none
    sessions,      \* every session create_session() returned, in order
    f_calls,       \* every invocation of the query function, in order
    f_delivered,   \* the rows the consumer has received, in order
    f_exit,        \* how the with-block was left
    f_raised,      \* the exception raised inside the with-block
    f_outcome,     \* how the stream ended
    f_error,       \* the exception the consumer received
    \* ---- one call of run_resource -------------------------------------
    r_pc,          \* "ready" | "fetch" | "persist" | "audit" | "done" | "failed"
    r_resource, r_by, r_ids, r_fields, r_hash_salt,   \* the call's arguments
    r_audit,       \* whether an audit sink was given
    r_fetch_fields, r_include_fields,                 \* the plan
    r_out, r_out_format,                              \* the call's arguments
    r_cleaned,     \* the rows whose Record _validate_with_model kept
    r_errors,      \* the row index of each error entry of _validate_with_model
    r_df,          \* the rows of the table run_resource returns
    r_columns,     \* the columns of that table
    r_dest,        \* what exists at the output destination
    r_error,       \* the error the call raised
    \* ---- connection/session.py: the module globals and the threads that
    \* ---- call get_engine / get_sessionmaker ---------------------------
    g_engine,       \* _engine: 0 is None, k the k-th engine created
    g_SessionLocal, \* _SessionLocal: None, or the factory and its bind
    g_engines,      \* how many times create_engine was called
    g_factories,    \* how many times sessionmaker was called
    t_api,          \* per thread: the function it is calling
    t_pc,           \* per thread: its position in that function
    t_bind,         \* per thread: the value of get_engine() inside get_sessionmaker
    t_results,      \* per thread: what its calls returned, in order
    \* ---- helpers/hashing.py: calls of hash_value on one (value, salt) ---
    h_value,        \* the value, a sequence of characters
    h_salt,         \* Optional[str]: the salt, a sequence of characters
    h_results,      \* what each call returned, in order
    \* ---- schemas: one Row validated by DemographicsOut and dumped ------
    s_pc,           \* "row" | "invalid" | "validated" | "dumped"
    s_row,          \* the Row handed to model_validate
    s_include,      \* include of the dump
    s_exclude,      \* exclude of the dump
    s_salt,         \* hash_salt of _validate_with_model
    s_started,      \* the date on which helpers/datetime_helpers.py was imported
    s_today,        \* the current date
    s_validated_on, \* the date on which model_validate ran
    s_obj,          \* the validated object: its fields and which of them are set
    s_out,          \* the dumped Record
    \* ---- Fetcher.__call__: one eager call -----------------------------
    c_pc,           \* "new" | "in_with" | "left_with" | "listing" | "done"
    c_lazy,         \* whether the query function returns a generator
    c_ids,          \* the identifier list of the call
    c_sessions,     \* the sessions create_session() returned
    c_pending,      \* rows of the query's result not yet produced
    c_reads,        \* for each row produced: whether the session was open
    c_rows,         \* the list __call__ builds
    c_error,        \* the error the call raised
    \* ---- threads sharing one AuditLogger ------------------------------
    l_pc,           \* per thread: its position in log_access
    l_kw            \* per thread: the keyword arguments of its call

planVars == <<p_by, p_requested, p_iter, p_pc, p_result>>
auditVars == <<a_logger, a_fh, a_calls, a_flushed>>

fetchVars == <<f_api, f_defaults, f_overrides, f_max_items, f_transform, f_pc,
               f_path, f_i, f_buf, f_db, sessions, f_calls, f_delivered,
               f_exit, f_raised, f_outcome, f_error>>

runVars == <<r_pc, r_resource, r_by, r_ids, r_fields, r_hash_salt, r_audit,
             r_fetch_fields, r_include_fields, r_out, r_out_format,
             r_cleaned, r_errors, r_df, r_columns, r_dest, r_error>>

engineVars == <<g_engine, g_SessionLocal, g_engines, g_factories,
                t_api, t_pc, t_bind, t_results>>

hashVars == <<h_value, h_salt, h_results>>

dumpVars == <<s_pc, s_row, s_include, s_exclude, s_salt, s_started, s_today,
              s_validated_on, s_obj, s_out>>

eagerVars == <<c_pc, c_lazy, c_ids, c_sessions, c_pending, c_reads, c_rows, c_error>>

logVars == <<l_pc, l_kw>>

layerVars == <<hashVars, dumpVars, eagerVars, logVars>>

vars == <<planVars, auditVars, fetchVars, runVars, engineVars, layerVars>>

---------------------------------------------------------------------------
(* Bounds of the model                                                     *)
MaxReq == 3        \* longest requested field list
MaxIds == 3        \* longest identifier list
MaxSampleSize == 2 \* largest id_sample_size a sink is configured with
MaxRecords == 2    \* most log_access calls on one sink
MaxItems == 2      \* largest max_items (chunk size)
NThreads == 2      \* threads that call get_engine / get_sessionmaker
MaxCalls == 2      \* calls each thread makes
MaxValueLen == 13  \* longest value handed to hash_value
MaxHashCalls == 2  \* calls of hash_value on the same arguments
MaxText == 2       \* longest patient_sex text of a Row
DaysPerYear == 2   \* dates of one calendar year
MaxDays == 2       \* date changes the process lives through

---------------------------------------------------------------------------
(* Generic helpers                                                         *)
None == [isNone |-> TRUE, v |-> <<>>]
NoneStr == [isNone |-> TRUE, v |-> ""]      \* None where a str is expected
Some(x) == [isNone |-> FALSE, v |-> x]

Range(s) == {s[k] : k \in 1..Len(s)}

SeqsUpTo(S, n) == UNION {[1..k -> S] : k \in 0..n}

\* all orders in which the elements of a finite set can be iterated
Perms(S) == {s \in [1..Cardinality(S) -> S] : Range(s) = S}

---------------------------------------------------------------------------
(* pipeline/pipes/extract_demography.py: the one registered resource       *)
Fields ==
    {"patient_id", "case_number", "patient_date_of_birth", "patient_sex",
     "case_admission_time", "case_discharge_time",
     "patient_age_today", "patient_age_at_admission"}

DEMOGRAPHICS_SPEC ==
    [derived_deps |->
        [n \in {"patient_age_today", "patient_age_at_admission"} |->
            IF n = "patient_age_today"
            THEN {"patient_date_of_birth"}
            ELSE {"patient_date_of_birth", "case_admission_time"}],
     requires_cases |->
        {"case_number", "case_admission_time", "case_discharge_time",
         "patient_age_at_admission"},
     fetchers |-> {"cases", "patients"}]

REGISTRY == [r \in {"demographics"} |-> DEMOGRAPHICS_SPEC]

\* A Python set has no fixed iteration order: every order of every
\* derived_deps value is one the interpreter may produce.
SetIterOrders(spec) ==
    {f \in [DOMAIN spec.derived_deps -> UNION {Perms(spec.derived_deps[n]) :
                                              n \in DOMAIN spec.derived_deps}] :
        \A n \in DOMAIN spec.derived_deps : Range(f[n]) = spec.derived_deps[n]}

---------------------------------------------------------------------------
(* pipeline/extraction_pipeline.py: _plan_fetch_and_include_for            *)

\* (faulty variant) the last occurrence of each name is kept
RECURSIVE DedupKeepOrder_KeepLast(_)
DedupKeepOrder_KeepLast(s) ==
    IF s = <<>> THEN <<>>
    ELSE LET rest == DedupKeepOrder_KeepLast(Tail(s))
         IN IF Head(s) \in Range(rest) THEN rest ELSE <<Head(s)>> \o rest

\* list(dict.fromkeys(requested)): first occurrences, in order
RECURSIVE DedupKeepOrder(_)
DedupKeepOrder(s) ==
    IF s = <<>> THEN <<>>
    ELSE LET init == DedupKeepOrder(SubSeq(s, 1, Len(s) - 1))
             last == s[Len(s)]
         IN IF last \in Range(init) THEN init ELSE Append(init, last)

\* [f for f in requested if f not in spec.derived_deps]
NonDerived(spec, requested) ==
    SelectSeq(requested, LAMBDA f : f \notin DOMAIN spec.derived_deps)

\* for dep in deps: if dep not in fetch_fields: fetch_fields.append(dep)
RECURSIVE AppendMissing(_, _)
AppendMissing(fetch, deps) ==
    IF deps = <<>> THEN fetch
    ELSE AppendMissing(
            IF Head(deps) \in Range(fetch) THEN fetch ELSE Append(fetch, Head(deps)),
            Tail(deps))

\* for name in requested: for dep in spec.derived_deps.get(name, ()): ...
RECURSIVE AppendDeps(_, _, _, _)
AppendDeps(spec, order, fetch, names) ==
    IF names = <<>> THEN fetch
    ELSE LET name == Head(names)
             deps == IF name \in DOMAIN spec.derived_deps THEN order[name] ELSE <<>>
         IN AppendDeps(spec, order, AppendMissing(fetch, deps), Tail(names))

PlanRaises(spec, by, requested) ==
    /\ ~requested.isNone
    /\ by # "cases"
    /\ spec.requires_cases \cap Range(requested.v) # {}

\* (faulty variant) the dependencies of the derived fields are not appended
PlanFetchFields_NoDeps(spec, order, requested) ==
    IF requested.isNone THEN None
    ELSE Some(NonDerived(spec, DedupKeepOrder(requested.v)))

PlanFetchFields(spec, order, requested) ==
    IF requested.isNone THEN None
    ELSE LET req == DedupKeepOrder(requested.v)
         IN Some(AppendDeps(spec, order, NonDerived(spec, req), req))

PlanIncludeFields(requested) ==
    IF requested.isNone THEN None ELSE Some(DedupKeepOrder(requested.v))

PlanInit ==
    /\ p_by \in {"cases", "patients"}
    /\ p_requested \in {None} \cup {Some(s) : s \in SeqsUpTo(Fields, MaxReq)}
    /\ p_iter \in SetIterOrders(DEMOGRAPHICS_SPEC)
    /\ p_pc = "call"
    /\ p_result = [fetch_fields |-> None, include_fields |-> None]

PlanIdle ==
    /\ p_by = "cases"
    /\ p_requested = None
    /\ p_iter = CHOOSE f \in SetIterOrders(DEMOGRAPHICS_SPEC) : TRUE
    /\ p_pc = "idle"
    /\ p_result = [fetch_fields |-> None, include_fields |-> None]

notPlanVars == <<auditVars, fetchVars, runVars, engineVars, layerVars>>

PlanReturn ==
    /\ p_pc = "call"
    /\ ~PlanRaises(DEMOGRAPHICS_SPEC, p_by, p_requested)
    /\ p_pc' = "returned"
    /\ p_result' = [fetch_fields |-> PlanFetchFields(DEMOGRAPHICS_SPEC, p_iter, p_requested),
                    include_fields |-> PlanIncludeFields(p_requested)]
    /\ UNCHANGED <<p_by, p_requested, p_iter, notPlanVars>>

PlanRaise ==
    /\ p_pc = "call"
    /\ PlanRaises(DEMOGRAPHICS_SPEC, p_by, p_requested)
    /\ p_pc' = "raised"
    /\ UNCHANGED <<p_by, p_requested, p_iter, p_result, notPlanVars>>

PlanNext == PlanReturn \/ PlanRaise

---------------------------------------------------------------------------
(* helpers/hashing.py                                                      *)

\* A text value is Str(t); the truncated SHA-256 hex digest of salt + t is
\* the term Digest(salt, t): injective, and never equal to a plain text.
Str(t) == [h |-> FALSE, salt |-> "", text |-> t]
Digest(salt, t) == [h |-> TRUE, salt |-> salt, text |-> t]

\* `salt` is Optional[str]; "not salt" holds for None and for ""
hash_value(value, salt) ==
    IF salt.isNone \/ salt.v = "" THEN value
    ELSE Digest(salt.v, value.text)

---------------------------------------------------------------------------
(* helpers/hashing.py, character by character                              *)

\* Here a str is the sequence of its characters.  hash_value above is the
\* same function on terms, for the layers that only compare digests.
HashChars == {"a", "b"}
HashValues == SeqsUpTo(HashChars, MaxValueLen)
HashSalts == {None, Some(<<>>), Some(<<"a">>), Some(<<"b", "a">>)}

HexDigits == <<"0", "1", "2", "3", "4", "5", "6", "7",
               "8", "9", "a", "b", "c", "d", "e", "f">>

DigestHexLen == 64    \* characters of a SHA-256 hexdigest()
DefaultLength == 12   \* hash_value's default `length`
MixModulus == 65521   \* range of the stand-in for SHA-256's compression

CharCode(c) == IF c = "a" THEN 1 ELSE 2

\* A stand-in for hashlib.sha256(text).hexdigest(): a fixed function of the
\* whole text to DigestHexLen hexadecimal characters.
RECURSIVE Mix(_, _)
Mix(text, acc) ==
    IF text = <<>> THEN acc
    ELSE Mix(Tail(text), (acc * 31 + CharCode(Head(text))) % MixModulus)

Sha256Hex(text) ==
    LET m == Mix(text, 7)
    IN [k \in 1..DigestHexLen |-> HexDigits[(((m + k) * (k + 3)) % 16) + 1]]

\* (faulty variant) return h
Truncate_Whole(h, length) == h

\* h[:length] for length >= 0
Truncate(h, length) == SubSeq(h, 1, IF length < Len(h) THEN length ELSE Len(h))

\* hash_value(value, salt=salt) with the default length
HashValueChars(value, salt) ==
    IF salt.isNone \/ salt.v = <<>> THEN value
    ELSE Truncate(Sha256Hex(salt.v \o value), DefaultLength)

HashInit ==
    /\ h_value \in HashValues
    /\ h_salt \in HashSalts
    /\ h_results = <<>>

HashIdle ==
    /\ h_value = <<>>
    /\ h_salt = None
    /\ h_results = <<>>

\* one call hash_value(h_value, salt=h_salt)
HashCall ==
    /\ Len(h_results) < MaxHashCalls
    /\ h_results' = Append(h_results, HashValueChars(h_value, h_salt))
    /\ UNCHANGED <<h_value, h_salt, dumpVars, eagerVars, logVars,
                   planVars, auditVars, fetchVars, runVars, engineVars>>

---------------------------------------------------------------------------
(* pipeline/audit_logger.py                                                *)
IdTexts == {"P1", "P2"}
Salts == {NoneStr, Some(""), Some("pepper")}

\* AuditLogger.__init__
AuditLogger(include_id_samples, id_sample_size, id_hash_salt) ==
    [include_id_samples |-> include_id_samples,
     id_sample_size     |-> id_sample_size,
     id_hash_salt       |-> IF id_hash_salt.isNone THEN "" ELSE id_hash_salt.v,
     hash_ids           |-> ~id_hash_salt.isNone]

\* AuditLogger._hash_id
HashId(self, s) == hash_value(s, Some(self.id_hash_salt))

\* ids[: n] for n >= 0
Prefix(s, n) == SubSeq(s, 1, IF n < Len(s) THEN n ELSE Len(s))

\* (faulty variant) the sample is written whether or not sampling was enabled
SummarizeIds_AlwaysSample(self, ids) ==
    IF ids # <<>>
    THEN LET sample == Prefix(ids, self.id_sample_size)
         IN IF self.hash_ids
            THEN [count |-> Len(ids), key |-> "hashed_ids",
                  values |-> [k \in 1..Len(sample) |-> HashId(self, sample[k])]]
            ELSE [count |-> Len(ids), key |-> "ids", values |-> sample]
    ELSE [count |-> Len(ids), key |-> "none", values |-> <<>>]

\* AuditLogger._summarize_ids: key is the second key of the summary, if any
SummarizeIds(self, ids) ==
    IF self.include_id_samples /\ ids # <<>>
    THEN LET sample == Prefix(ids, self.id_sample_size)
         IN IF self.hash_ids
            THEN [count |-> Len(ids), key |-> "hashed_ids",
                  values |-> [k \in 1..Len(sample) |-> HashId(self, sample[k])]]
            ELSE [count |-> Len(ids), key |-> "ids", values |-> sample]
    ELSE [count |-> Len(ids), key |-> "none", values |-> <<>>]

\* the record log_access builds from its keyword arguments kw (without
\* ts, actor, action, resource, by and duration_ms)
AuditRecord(self, kw) ==
    [ids              |-> SummarizeIds(self, kw.ids),
     fields_requested |-> kw.fields,
     fetch_fields     |-> kw.fetch_fields,
     include_fields   |-> kw.include_fields,
     derived_added    |-> kw.derived_added,
     hashed           |-> kw.hashed,
     out              |-> kw.out,
     out_format       |-> kw.out_format,
     rows             |-> kw.rows]

\* keyword arguments of a log_access call about `ids` and nothing else
PlainCall(ids) ==
    [ids |-> ids, fields |-> None, fetch_fields |-> None, include_fields |-> None,
     derived_added |-> {}, hashed |-> FALSE, out |-> NoneStr,
     out_format |-> NoneStr, rows |-> 0]

\* one write() on the sink: the text of a record, or a line terminator
JsonPiece(rec) == [nl |-> FALSE, rec |-> rec]
NewlinePiece == [nl |-> TRUE, rec |-> AuditRecord(AuditLogger(FALSE, 0, NoneStr), PlainCall(<<>>))]

AuditInit ==
    /\ a_logger \in {AuditLogger(s, n, salt) :
                        s \in BOOLEAN, n \in 0..MaxSampleSize, salt \in Salts}
    /\ a_fh = <<>>
    /\ a_calls = <<>>
    /\ a_flushed = 0

AuditIdle ==
    /\ a_logger = AuditLogger(FALSE, 0, NoneStr)
    /\ a_fh = <<>>
    /\ a_calls = <<>>
    /\ a_flushed = 0

\* (faulty variant) flush() is not called
Flush_Skipped(fh, flushed) == flushed

\* self._fh.flush(): every piece written so far is pushed out
Flush(fh, flushed) == Len(fh)

\* AuditLogger.log_access: write(json.dumps(record)); write("\n"); flush()
LogAccess(kw) ==
    /\ Len(a_calls) < MaxRecords
    /\ a_fh' = a_fh \o <<JsonPiece(AuditRecord(a_logger, kw)), NewlinePiece>>
    /\ a_calls' = Append(a_calls, kw)
    /\ a_flushed' = Flush(a_fh', a_flushed)
    /\ UNCHANGED <<a_logger, planVars, fetchVars, runVars, engineVars, layerVars>>

AuditNext ==
    /\ Len(a_calls) < MaxRecords
    /\ \E ids \in SeqsUpTo({Str(t) : t \in IdTexts}, MaxIds) : LogAccess(PlainCall(ids))

\* the records of the sink, in the order written
WrittenRecords == SelectSeq(a_fh, LAMBDA p : ~p.nl)

---------------------------------------------------------------------------
(* connection/session.py                                                   *)

\* create_session(): a session with no transaction begun
NewSession == [open |-> TRUE, tx |-> FALSE, log |-> <<>>]

\* a statement run on the session begins a transaction (autobegin)
Execute(s) == [s EXCEPT !.tx = TRUE]

\* db.commit(): ends the transaction unless it raises
Commit(s, ok) == [s EXCEPT !.log = Append(@, "commit"),
                           !.tx = IF ok THEN FALSE ELSE @]
\* db.rollback()
Rollback(s) == [s EXCEPT !.log = Append(@, "rollback"), !.tx = FALSE]
\* db.close(): releases the connection and whatever transaction is left
CloseSession(s) == [s EXCEPT !.log = Append(@, "close"), !.tx = FALSE, !.open = FALSE]

\* How a with-block is left: "normal", "exception" (an Exception was raised
\* in the body) or "generator_exit" (a BaseException that is no Exception:
\* the GeneratorExit thrown in by close() of the enclosing generator).
ExitKinds == {"normal", "exception", "generator_exit"}

\* (faulty variant) close() after the try statement instead of in its finally
GetSessionExit_CloseAfterTry(s, how, commit_ok) ==
    CASE how = "normal" ->
            IF commit_ok THEN CloseSession(Commit(s, TRUE))
            ELSE Rollback(Commit(s, FALSE))
      [] how = "exception" -> Rollback(s)
      [] OTHER -> s

\* (faulty variant) no rollback in the except clause
GetSessionExit_NoRollback(s, how, commit_ok) ==
    CASE how = "normal" ->
            IF commit_ok THEN CloseSession(Commit(s, TRUE))
            ELSE CloseSession(Commit(s, FALSE))
      [] how = "exception" -> CloseSession(s)
      [] OTHER -> CloseSession(s)

\* (faulty variant) commit() after the try statement: a failing commit is not rolled back
GetSessionExit_CommitUnguarded(s, how, commit_ok) ==
    CASE how = "normal" ->
            IF commit_ok THEN CloseSession(Commit(s, TRUE))
            ELSE CloseSession(Commit(s, FALSE))
      [] how = "exception" -> CloseSession(Rollback(s))
      [] OTHER -> CloseSession(s)

\* get_session(), from the body's end on: try/commit, except Exception:
\* rollback and raise, finally: close.
GetSessionExit(s, how, commit_ok) ==
    CASE how = "normal" ->
            IF commit_ok THEN CloseSession(Commit(s, TRUE))
            ELSE CloseSession(Rollback(Commit(s, FALSE)))
      [] how = "exception" -> CloseSession(Rollback(s))
      [] OTHER -> CloseSession(s)

\* the exception that leaves get_session()
GetSessionRaises(how, exc, commit_ok) ==
    CASE how = "normal" -> IF commit_ok THEN "none" ELSE "CommitError"
      [] how = "exception" -> exc
      [] OTHER -> "none"

---------------------------------------------------------------------------
(* connection/fetcher.py                                                   *)

\* The store the query function reads: identifier "a" resolves to no row,
\* "b" to one row and "c" to two rows.
Ids == {"a", "b", "c"}
RowCount(id) == CASE id = "a" -> 0 [] id = "b" -> 1 [] OTHER -> 2
RowsOf(id) == [k \in 1..RowCount(id) |-> [id |-> id, n |-> k, t |-> FALSE]]

RECURSIVE RowsOfAll(_)
RowsOfAll(ids) ==
    IF ids = <<>> THEN <<>> ELSE RowsOf(Head(ids)) \o RowsOfAll(Tail(ids))

\* The value of the list parameter: its Python type and its elements.
Absent == [kind |-> "absent", ids |-> <<>>]
ListVal(ids) == [kind |-> "list", ids |-> ids]
NonSeqKinds == {"None", "str", "bytes", "dict", "iterable"}
NonSeqVal(kind) ==
    [kind |-> kind, ids |-> IF kind = "None" THEN <<>> ELSE [k \in 1..MaxIds |-> "c"]]
ParamValues ==
    {Absent} \cup {NonSeqVal(k) : k \in NonSeqKinds}
             \cup {ListVal(s) : s \in SeqsUpTo(Ids, MaxIds)}
DefaultValues == {Absent, ListVal(<<"b">>), ListVal(<<"c", "b", "a">>)}

\* A query function whose result for an identifier list is the
\* concatenation of its per-identifier results; without an identifier
\* filter it returns the rows of the whole store.
QueryRows(arg) ==
    IF arg.kind \in {"absent", "None"} THEN RowsOfAll(<<"a", "b", "c">>)
    ELSE RowsOfAll(arg.ids)

\* self.transform(r) if self.transform else r
Transform(has, r) == IF has THEN [r EXCEPT !.t = TRUE] ELSE r
TransformAll(has, rows) == [k \in 1..Len(rows) |-> Transform(has, rows[k])]

\* {**self.defaults, **overrides}[list_param]
MergedParam(defaults, overrides) == IF overrides # Absent THEN overrides ELSE defaults

\* overrides.get(list_param) if list_param in overrides else self.defaults.get(list_param)
SeqOf(defaults, overrides) ==
    LET v == MergedParam(defaults, overrides)
    IN IF v = Absent THEN NonSeqVal("None") ELSE v

\* _is_batchable_sequence
IsSequenceType(kind) == kind \in {"list", "str", "bytes"}

\* (faulty variant) str is not excluded
IsBatchableSequence_StrAllowed(obj) ==
    /\ obj.kind # "None"
    /\ obj.kind \notin {"bytes", "dict"}
    /\ IsSequenceType(obj.kind)

IsBatchableSequence(obj) ==
    /\ obj.kind # "None"
    /\ obj.kind \notin {"str", "bytes", "dict"}
    /\ IsSequenceType(obj.kind)

\* batched_iter takes the chunked branch
TakesChunkedPath(seq, max_items) ==
    /\ IsBatchableSequence(seq)
    /\ ~(Len(seq.ids) = 0 \/ Len(seq.ids) <= max_items)

\* (faulty variant) seq_list[i : i + max_items - 1]
Chunk_OffByOne(seq_list, i, max_items) ==
    SubSeq(seq_list, i + 1, IF i + max_items - 1 < Len(seq_list) THEN i + max_items - 1
                            ELSE Len(seq_list))

\* seq_list[i : i + max_items]
Chunk(seq_list, i, max_items) ==
    SubSeq(seq_list, i + 1, IF i + max_items < Len(seq_list) THEN i + max_items
                            ELSE Len(seq_list))

\* (faulty variant) range(0, n, max_items + 1)
NextOffset_Skip(i, max_items) == i + max_items + 1

\* range(0, n, max_items): the offset after i
NextOffset(i, max_items) == i + max_items

\* (faulty variant) each chunk runs through with_db_session, on a session of its own
CallWithSession_OwnSession(sess, db) ==
    [sessions |-> Append(sess, CloseSession(Commit(Execute(NewSession), TRUE))),
     used |-> Len(sess) + 1]

\* _call_with_session(db, **params): the query runs on the session handed in
CallWithSession(sess, db) == [sessions |-> [sess EXCEPT ![db] = Execute(@)], used |-> db]

FetchInit ==
    /\ f_api \in {"iter", "batched_iter", "get_db"}
    /\ IF f_api = "get_db"
       THEN /\ f_defaults = Absent /\ f_overrides = Absent
            /\ f_max_items = 0 /\ f_transform = FALSE
       ELSE /\ f_defaults \in DefaultValues
            /\ f_overrides \in ParamValues
            /\ f_max_items \in IF f_api = "iter" THEN {0} ELSE 0..MaxItems
            /\ f_transform \in BOOLEAN
    /\ f_pc = "new"
    /\ f_path = "none"
    /\ f_i = 0
    /\ f_buf = <<>>
    /\ f_db = 0
    /\ sessions = <<>>
    /\ f_calls = <<>>
    /\ f_delivered = <<>>
    /\ f_exit = "none"
    /\ f_raised = "none"
    /\ f_outcome = "none"
    /\ f_error = "none"

FetchIdle ==
    /\ f_api = "none"
    /\ f_defaults = Absent /\ f_overrides = Absent
    /\ f_max_items = 0 /\ f_transform = FALSE
    /\ f_pc = "idle"
    /\ f_path = "none"
    /\ f_i = 0
    /\ f_buf = <<>>
    /\ f_db = 0
    /\ sessions = <<>>
    /\ f_calls = <<>>
    /\ f_delivered = <<>>
    /\ f_exit = "none"
    /\ f_raised = "none"
    /\ f_outcome = "none"
    /\ f_error = "none"

fetchInputs == <<f_api, f_defaults, f_overrides, f_max_items, f_transform>>
notFetchVars == <<planVars, auditVars, runVars, engineVars, layerVars>>

\* the with-block of the stream is left: get_session() cleans up and the
\* generator ends
LeaveWith(sess, how, exc, commit_ok, outcome) ==
    /\ sessions' = [sess EXCEPT ![f_db] = GetSessionExit(@, how, commit_ok)]
    /\ f_exit' = how
    /\ f_raised' = exc
    /\ f_error' = GetSessionRaises(how, exc, commit_ok)
    /\ f_outcome' = outcome
    /\ f_pc' = "done"

\* the consumer's first next(): the generator runs to its with statement
FStart ==
    /\ f_pc = "new"
    /\ f_db' = Len(sessions) + 1
    /\ f_path' = CASE f_api = "get_db" -> "di"
                   [] f_api = "batched_iter"
                      /\ TakesChunkedPath(SeqOf(f_defaults, f_overrides), f_max_items)
                        -> "chunked"
                   [] OTHER -> "stream"
    /\ sessions' = Append(sessions, NewSession)
    /\ f_pc' = IF f_api = "get_db" THEN "suspended" ELSE "query"
    /\ UNCHANGED <<notFetchVars, fetchInputs, f_i, f_buf, f_calls, f_delivered, f_exit,
                   f_raised, f_outcome, f_error>>

\* range(0, n, 0) raises ValueError inside the with-block
FRangeRaises ==
    /\ f_pc = "query" /\ f_path = "chunked" /\ f_max_items = 0
    /\ LeaveWith(sessions, "exception", "ValueError", TRUE, "error")
    /\ UNCHANGED <<notFetchVars, fetchInputs, f_path, f_i, f_buf, f_db, f_calls, f_delivered>>

\* the argument of the next invocation of the query function
QueryArg ==
    IF f_path = "chunked"
    THEN ListVal(Chunk(SeqOf(f_defaults, f_overrides).ids, f_i, f_max_items))
    ELSE MergedParam(f_defaults, f_overrides)

\* where the chunk loop goes once the rows of the chunk at offset i are done
AfterChunk(i) ==
    IF f_path = "chunked"
       /\ NextOffset(i, f_max_items) < Len(SeqOf(f_defaults, f_overrides).ids)
    THEN "query" ELSE "finish"

\* self.func(session=db, ...) returns
FQuery ==
    /\ f_pc = "query"
    /\ f_path = "chunked" => f_max_items > 0
    /\ LET r == CallWithSession(sessions, f_db)
           rows == QueryRows(QueryArg)
       IN /\ sessions' = r.sessions
          /\ f_calls' = Append(f_calls, [arg |-> QueryArg, session |-> r.used,
                                         open |-> r.sessions[r.used].open])
          /\ IF rows = <<>>
             THEN /\ f_pc' = AfterChunk(f_i)
                  /\ f_i' = IF f_path = "chunked" THEN NextOffset(f_i, f_max_items) ELSE f_i
                  /\ f_buf' = <<>>
             ELSE /\ f_pc' = "rows"
                  /\ f_i' = f_i
                  /\ f_buf' = rows
    /\ UNCHANGED <<notFetchVars, fetchInputs, f_path, f_db, f_delivered, f_exit, f_raised,
                   f_outcome, f_error>>

\* self.func(session=db, ...) raises
FQueryRaises ==
    /\ f_pc = "query"
    /\ f_path = "chunked" => f_max_items > 0
    /\ LET r == CallWithSession(sessions, f_db)
       IN /\ f_calls' = Append(f_calls, [arg |-> QueryArg, session |-> r.used,
                                         open |-> r.sessions[r.used].open])
          /\ LeaveWith(r.sessions, "exception", "QueryError", TRUE, "error")
    /\ UNCHANGED <<notFetchVars, fetchInputs, f_path, f_i, f_buf, f_db, f_delivered>>

\* yield self.transform(r) if self.transform else r
FYield ==
    /\ f_pc = "rows"
    /\ f_delivered' = Append(f_delivered, Transform(f_transform, Head(f_buf)))
    /\ f_buf' = Tail(f_buf)
    /\ f_pc' = "suspended"
    /\ UNCHANGED <<notFetchVars, fetchInputs, f_path, f_i, f_db, sessions, f_calls, f_exit,
                   f_raised, f_outcome, f_error>>

\* self.transform(r) raises
FTransformRaises ==
    /\ f_pc = "rows" /\ f_transform
    /\ LeaveWith(sessions, "exception", "TransformError", TRUE, "error")
    /\ UNCHANGED <<notFetchVars, fetchInputs, f_path, f_i, f_buf, f_db, f_calls, f_delivered>>

\* iter(): the iterable the query function returned raises while the for
\* loop draws its next row
FLazyQueryRaises ==
    /\ f_pc = "rows" /\ f_path = "stream"
    /\ LeaveWith(sessions, "exception", "QueryError", TRUE, "error")
    /\ UNCHANGED <<notFetchVars, fetchInputs, f_path, f_i, f_buf, f_db, f_calls, f_delivered>>

\* the consumer's next() on a suspended stream
FResume ==
    /\ f_pc = "suspended"
    /\ IF f_buf # <<>>
       THEN f_pc' = "rows" /\ f_i' = f_i
       ELSE /\ f_pc' = AfterChunk(f_i)
            /\ f_i' = IF f_path = "chunked" THEN NextOffset(f_i, f_max_items) ELSE f_i
    /\ UNCHANGED <<notFetchVars, fetchInputs, f_path, f_buf, f_db, sessions, f_calls,
                   f_delivered, f_exit, f_raised, f_outcome, f_error>>

\* the with-block ends normally: commit (which may raise), close
FFinish ==
    /\ f_pc = "finish"
    /\ \E commit_ok \in BOOLEAN :
          LeaveWith(sessions, "normal", "none", commit_ok,
                    IF commit_ok THEN "exhausted" ELSE "error")
    /\ UNCHANGED <<notFetchVars, fetchInputs, f_path, f_i, f_buf, f_db, f_calls, f_delivered>>

\* generator.close(): GeneratorExit is raised at the yield, if the
\* generator was started
GeneratorClose(outcome) ==
    /\ IF f_db = 0
       THEN /\ f_pc' = "done" /\ f_outcome' = outcome
            /\ UNCHANGED <<sessions, f_exit, f_raised, f_error>>
       ELSE LeaveWith(sessions, "generator_exit", "none", TRUE, outcome)
    /\ UNCHANGED <<notFetchVars, fetchInputs, f_path, f_i, f_buf, f_db, f_calls, f_delivered>>

\* the consumer closes the stream before exhaustion
FClose ==
    /\ f_pc \in {"new", "suspended"}
    /\ GeneratorClose("closed")

\* the consumer drops its last reference to the stream
FAbandon ==
    /\ f_pc \in {"new", "suspended"}
    /\ f_pc' = "unreferenced"
    /\ UNCHANGED <<notFetchVars, fetchInputs, f_path, f_i, f_buf, f_db, sessions, f_calls,
                   f_delivered, f_exit, f_raised, f_outcome, f_error>>

\* the interpreter finalises the unreferenced generator: close()
FFinalize ==
    /\ f_pc = "unreferenced"
    /\ GeneratorClose("abandoned")

\* get_db: the caller of the dependency runs a statement on the session
FBodyExecute ==
    /\ f_api = "get_db" /\ f_pc = "suspended"
    /\ ~sessions[f_db].tx
    /\ sessions' = [sessions EXCEPT ![f_db] = Execute(@)]
    /\ UNCHANGED <<notFetchVars, fetchInputs, f_pc, f_path, f_i, f_buf, f_db, f_calls,
                   f_delivered, f_exit, f_raised, f_outcome, f_error>>

\* get_db: the caller throws its exception into the dependency
FThrow ==
    /\ f_api = "get_db" /\ f_pc = "suspended"
    /\ LeaveWith(sessions, "exception", "BodyError", TRUE, "error")
    /\ UNCHANGED <<notFetchVars, fetchInputs, f_path, f_i, f_buf, f_db, f_calls, f_delivered>>

FetchNext ==
    \/ FStart \/ FRangeRaises \/ FQuery \/ FQueryRaises \/ FYield
    \/ FTransformRaises \/ FLazyQueryRaises \/ FResume \/ FFinish
    \/ FClose \/ FAbandon \/ FFinalize \/ FBodyExecute \/ FThrow

---------------------------------------------------------------------------
(* methods/fetch_demographics.py, schemas/demographics.py                  *)

\* the columns the fetchers select when `fields` is None or empty
DefaultColumns(by) ==
    IF by = "cases"
    THEN <<"patient_id", "case_number", "patient_date_of_birth", "patient_sex",
           "case_admission_time", "case_discharge_time">>
    ELSE <<"patient_id", "patient_date_of_birth", "patient_sex">>

\* the keys of every Row of one call
FetchedColumns(by, fetch_fields) ==
    IF fetch_fields.isNone \/ fetch_fields.v = <<>>
    THEN DefaultColumns(by) ELSE fetch_fields.v

\* the store's values: the row of identifier "b" holds NULL as patient_sex
HasValue(r, column) == ~(r.id = "b" /\ column = "patient_sex")

\* DemographicsOut.model_validate(row): case_number is the one required
\* field; the second row of identifier "c" holds a value that does not
\* coerce to its declared type
RowValidates(columns, r) ==
    /\ "case_number" \in Range(columns)
    /\ HasValue(r, "case_number")
    /\ ~(r.id = "c" /\ r.n = 2)

\* the fields DemographicsOut declares, in declaration order (the two
\* body metrics, which no request of the model names, left out);
\* patient_id is not one of them and extra="ignore" drops it
ModelFieldOrder ==
    <<"case_number", "patient_sex", "patient_date_of_birth",
      "case_admission_time", "case_discharge_time",
      "patient_age_today", "patient_age_at_admission">>

excluded_by_default == {"patient_date_of_birth"}

\* BaseSchema._effective_exclude with exclude=None
EffectiveExclude(include) ==
    excluded_by_default \ (IF include.isNone THEN {} ELSE Range(include.v))

\* the fields set on the validated object and not None: those of the row,
\* and the ages _compute_ages assigns
SetFields(columns, r) ==
    LET given == {c \in Range(columns) \cap Range(ModelFieldOrder) : HasValue(r, c)}
        today == IF "patient_date_of_birth" \in given
                 THEN {"patient_age_today"} ELSE {}
        adm   == IF {"patient_date_of_birth", "case_admission_time"} \subseteq given
                 THEN {"patient_age_at_admission"} ELSE {}
    IN given \cup today \cup adm

\* dump_clean / dump_hashed: the keys of the Record, in declaration order;
\* model_dump(exclude_none=True, exclude_unset=True, exclude=effective_exclude)
RecordKeys(columns, include, r) ==
    SelectSeq(ModelFieldOrder,
              LAMBDA c : c \in SetFields(columns, r) \ EffectiveExclude(include))

---------------------------------------------------------------------------
(* schemas/base_schema_out.py, schemas/demographics.py,                    *)
(* helpers/datetime_helpers.py: one Row through model_validate and a dump  *)

\* A field value: kind k is "absent" (no such key), "none" (None), "str"
\* (characters s), "int" (y) or "date" (year y, position d in the year;
\* comparing (month, day) pairs is comparing positions).
AbsentV == [k |-> "absent", s |-> <<>>, y |-> 0, d |-> 0]
NoneV == [k |-> "none", s |-> <<>>, y |-> 0, d |-> 0]
StrV(chars) == [k |-> "str", s |-> chars, y |-> 0, d |-> 0]
IntV(n) == [k |-> "int", s |-> <<>>, y |-> n, d |-> 0]
DateV(year, pos) == [k |-> "date", s |-> <<>>, y |-> year, d |-> pos]

NoneSet == [isNone |-> TRUE, v |-> {}]    \* None where a set is expected

\* the fields of DemographicsOut the model follows
DumpFields ==
    {"case_number", "patient_sex", "patient_date_of_birth", "case_admission_time",
     "patient_age_today", "patient_age_at_admission"}

hashable_fields == {"case_number"}

\* str.strip() for the whitespace character " "
RECURSIVE LStrip(_)
LStrip(t) == IF t # <<>> /\ Head(t) = " " THEN LStrip(Tail(t)) ELSE t

RECURSIVE RStrip(_)
RStrip(t) ==
    IF t # <<>> /\ t[Len(t)] = " " THEN RStrip(SubSeq(t, 1, Len(t) - 1)) ELSE t

Strip(t) == RStrip(LStrip(t))

\* str.casefold() on the letters of the model
CasefoldChar(c) ==
    CASE c = "M" -> "m" [] c = "F" -> "f" [] c = "U" -> "u" [] c = "D" -> "d"
      [] c = "W" -> "w" [] OTHER -> c

Casefold(t) == [k \in 1..Len(t) |-> CasefoldChar(t[k])]

\* DemographicsOut.normalization_maps["patient_sex"]: the keys without
\* "__default__", each with its value
SexMapKeys ==
    {<<"m">>, <<"m", "a", "l", "e">>, <<"f">>, <<"f", "e", "m", "a", "l", "e">>,
     <<"w">>, <<"w", "e", "i", "b", "l", "i", "c", "h">>, <<"d">>,
     <<"d", "i", "v", "e", "r", "s">>, <<"u">>, <<"u", "n", "k", "n", "o", "w", "n">>}

SexMapValue(key) ==
    CASE Head(key) = "m" -> <<"M">>
      [] Head(key) \in {"f", "w"} -> <<"F">>
      [] Head(key) = "d" -> <<"D">>
      [] OTHER -> <<"U">>

normalization_maps ==
    [patient_sex |-> [keys |-> SexMapKeys, has_default |-> TRUE, default |-> StrV(<<"U">>)]]

\* BaseSchema._normalize_value for a field that has a mapping
NormalizeValue(mapping, value) ==
    IF value.k = "none" THEN NoneV
    ELSE IF value.k = "str" /\ Strip(value.s) = <<>> THEN NoneV
    ELSE LET key == Casefold(Strip(value.s))
         IN IF \E m \in mapping.keys : Casefold(Strip(m)) = key
            THEN StrV(SexMapValue(key))
            ELSE IF mapping.has_default THEN mapping.default ELSE value

\* BaseSchema._apply_normalization_maps: `if not isinstance(data, dict): return data`
ApplyNormalizationMaps(row) ==
    IF row.kind # "dict" THEN row
    ELSE [row EXCEPT !.val = [f \in DumpFields |->
            IF f = "patient_sex" /\ row.val[f].k # "absent"
            THEN NormalizeValue(normalization_maps.patient_sex, row.val[f])
            ELSE row.val[f]]]

\* the field validation of DemographicsOut: case_number is required
FieldsValidate(row) == row.val["case_number"].k = "str"

\* helpers/datetime_helpers.py: _age(dob, reference)
Age(dob, reference) ==
    reference.y - dob.y - (IF reference.d < dob.d THEN 1 ELSE 0)

\* `def _age(dob, reference=date.today())`: the default is evaluated once,
\* when the def statement runs at import
DefaultReference(started, today) == started

\* (faulty variant) the ages are assigned whatever the row supplied
ComputeAges_Overwrite(val, set, started, today) ==
    LET dob == val["patient_date_of_birth"]
        adm == val["case_admission_time"]
    IN IF dob.k # "date" THEN [val |-> val, set |-> set]
       ELSE [val |-> [f \in DumpFields |->
                        IF f = "patient_age_today"
                        THEN IntV(Age(dob, DefaultReference(started, today)))
                        ELSE IF f = "patient_age_at_admission" /\ adm.k = "date"
                        THEN IntV(Age(dob, adm))
                        ELSE val[f]],
             set |-> set \cup {"patient_age_today"}
                         \cup (IF adm.k = "date" THEN {"patient_age_at_admission"} ELSE {})]

\* DemographicsOut._compute_ages; an assignment marks the field as set
ComputeAges(val, set, started, today) ==
    LET dob == val["patient_date_of_birth"]
        adm == val["case_admission_time"]
        fill_today == val["patient_age_today"].k = "none"
        fill_adm == adm.k = "date" /\ val["patient_age_at_admission"].k = "none"
    IN IF dob.k # "date" THEN [val |-> val, set |-> set]
       ELSE [val |-> [f \in DumpFields |->
                        IF f = "patient_age_today" /\ fill_today
                        THEN IntV(Age(dob, DefaultReference(started, today)))
                        ELSE IF f = "patient_age_at_admission" /\ fill_adm
                        THEN IntV(Age(dob, adm))
                        ELSE val[f]],
             set |-> set \cup (IF fill_today THEN {"patient_age_today"} ELSE {})
                         \cup (IF fill_adm THEN {"patient_age_at_admission"} ELSE {})]

\* the object model_validate builds: a missing key leaves the default None
\* and the field unset
ValidatedObject(row, started, today) ==
    LET n == ApplyNormalizationMaps(row)
        val == [f \in DumpFields |-> IF n.val[f].k = "absent" THEN NoneV ELSE n.val[f]]
        set == {f \in DumpFields : n.val[f].k # "absent"}
    IN ComputeAges(val, set, started, today)

\* (faulty variant) exclude wins over include
effective_exclude_ExcludeWins(include, exclude) ==
    (excluded_by_default \ (IF include.isNone THEN {} ELSE include.v))
        \cup (IF exclude.isNone THEN {} ELSE exclude.v)

\* BaseSchema._effective_exclude
effective_exclude(include, exclude) ==
    (excluded_by_default \cup (IF exclude.isNone THEN {} ELSE exclude.v))
        \ (IF include.isNone THEN {} ELSE include.v)

\* model_dump(exclude_none=True, exclude_unset=True, exclude=...): the
\* handler's dict, AbsentV for a key it does not hold
ModelDump(obj, exclude) ==
    [f \in DumpFields |->
        IF f \in obj.set /\ obj.val[f].k # "none" /\ f \notin exclude
        THEN obj.val[f] ELSE AbsentV]

\* (faulty variant) every str of the dict is hashed
ApplyHashing_EveryStr(data, salt) ==
    IF salt.isNone \/ salt.v = <<>> THEN data
    ELSE [f \in DumpFields |->
            IF data[f].k = "str"
            THEN StrV(HashValueChars(data[f].s, salt)) ELSE data[f]]

\* BaseSchema._apply_hashing on the handler's dict
ApplyHashing(data, salt) ==
    IF salt.isNone \/ salt.v = <<>> \/ hashable_fields = {} THEN data
    ELSE [f \in DumpFields |->
            IF f \in hashable_fields /\ data[f].k = "str"
            THEN StrV(HashValueChars(data[f].s, salt)) ELSE data[f]]

\* dump_clean: no salt in the serializer's context
DumpClean(obj, include, exclude) ==
    ApplyHashing(ModelDump(obj, effective_exclude(include, exclude)), None)

\* dump_hashed: the salt is handed to the serializer in the context
DumpHashed(obj, salt, include, exclude) ==
    ApplyHashing(ModelDump(obj, effective_exclude(include, exclude)), salt)

\* _validate_with_model: dump_hashed(...) if hash_salt else dump_clean(...)
DumpRecord(obj, salt, include, exclude) ==
    IF ~(salt.isNone \/ salt.v = <<>>)
    THEN DumpHashed(obj, salt, include, exclude)
    ELSE DumpClean(obj, include, exclude)

Row(kind, case_number, sex, dob, adm, age_today, age_adm) ==
    [kind |-> kind,
     val |-> [f \in DumpFields |->
                CASE f = "case_number" -> case_number
                  [] f = "patient_sex" -> sex
                  [] f = "patient_date_of_birth" -> dob
                  [] f = "case_admission_time" -> adm
                  [] f = "patient_age_today" -> age_today
                  [] OTHER -> age_adm]]

RowKinds == {"dict", "RowMapping"}
SexChars == {"m", "M", " ", "x"}
SexValues == {AbsentV, NoneV} \cup {StrV(t) : t \in SeqsUpTo(SexChars, MaxText)}
StartDates == {DateV(10, pos) : pos \in 1..DaysPerYear}
DumpSalts == {None, Some(<<>>), Some(<<"a">>)}
IncludeSets == {NoneSet, Some({"patient_date_of_birth"}),
                Some({"case_number", "patient_date_of_birth"})}
ExcludeSets == {NoneSet, Some({"case_number"}),
                Some({"patient_sex", "patient_date_of_birth"})}

NoObject == [val |-> [f \in DumpFields |-> NoneV], set |-> {}]
NoRecord == [f \in DumpFields |-> AbsentV]

\* rows that differ in everything but the text of patient_sex
DumpInit ==
    /\ s_row \in {Row(kind, cn, sex, dob, adm, at, aa) :
                    kind \in RowKinds,
                    cn \in {AbsentV, StrV(<<"a", "b">>)},
                    sex \in {AbsentV, StrV(<<"x">>)},
                    dob \in {NoneV} \cup {DateV(3, pos) : pos \in 1..DaysPerYear},
                    adm \in {AbsentV, DateV(9, 1)},
                    at \in {AbsentV, NoneV, IntV(0)},
                    aa \in {AbsentV, IntV(0)}}
    /\ s_include \in IncludeSets
    /\ s_exclude \in ExcludeSets
    /\ s_salt \in DumpSalts
    /\ s_started \in StartDates
    /\ s_today = s_started
    /\ s_validated_on = s_started
    /\ s_pc = "row"
    /\ s_obj = NoObject
    /\ s_out = NoRecord

\* rows that differ in the text of patient_sex and in their mapping type
NormalizeInit ==
    /\ s_row \in {Row(kind, cn, sex, NoneV, AbsentV, AbsentV, AbsentV) :
                    kind \in RowKinds,
                    cn \in {AbsentV, StrV(<<"a", "b">>)},
                    sex \in SexValues}
    /\ s_include = NoneSet
    /\ s_exclude = NoneSet
    /\ s_salt \in DumpSalts
    /\ s_started \in StartDates
    /\ s_today = s_started
    /\ s_validated_on = s_started
    /\ s_pc = "row"
    /\ s_obj = NoObject
    /\ s_out = NoRecord

DumpIdle ==
    /\ s_row = Row("dict", AbsentV, AbsentV, AbsentV, AbsentV, AbsentV, AbsentV)
    /\ s_include = NoneSet
    /\ s_exclude = NoneSet
    /\ s_salt = None
    /\ s_started = DateV(10, 1)
    /\ s_today = DateV(10, 1)
    /\ s_validated_on = DateV(10, 1)
    /\ s_pc = "idle"
    /\ s_obj = NoObject
    /\ s_out = NoRecord

notDumpVars == <<hashVars, eagerVars, logVars,
                 planVars, auditVars, fetchVars, runVars, engineVars>>

dumpArgs == <<s_row, s_include, s_exclude, s_salt, s_started>>

DaysSince(from, to) == (to.y - from.y) * DaysPerYear + (to.d - from.d)

\* midnight passes while the process runs
DayPasses ==
    /\ s_pc \in {"row", "validated"}
    /\ DaysSince(s_started, s_today) < MaxDays
    /\ s_today' = IF s_today.d < DaysPerYear
                  THEN DateV(s_today.y, s_today.d + 1)
                  ELSE DateV(s_today.y + 1, 1)
    /\ UNCHANGED <<dumpArgs, s_validated_on, s_pc, s_obj, s_out, notDumpVars>>

\* model_cls.model_validate(row)
ModelValidate ==
    /\ s_pc = "row"
    /\ s_validated_on' = s_today
    /\ IF FieldsValidate(ApplyNormalizationMaps(s_row))
       THEN /\ s_pc' = "validated"
            /\ s_obj' = ValidatedObject(s_row, s_started, s_today)
       ELSE /\ s_pc' = "invalid"
            /\ UNCHANGED s_obj
    /\ UNCHANGED <<dumpArgs, s_today, s_out, notDumpVars>>

\* obj.dump_hashed(...) if hash_salt else obj.dump_clean(...)
DumpObject ==
    /\ s_pc = "validated"
    /\ s_out' = DumpRecord(s_obj, s_salt, s_include, s_exclude)
    /\ s_pc' = "dumped"
    /\ UNCHANGED <<dumpArgs, s_today, s_validated_on, s_obj, notDumpVars>>

DumpNext == DayPasses \/ ModelValidate \/ DumpObject

---------------------------------------------------------------------------
(* pipeline/_pipeline_helpers.py                                           *)

\* (faulty variant) a failing row leaves no error entry
ValidateStep_NoErrorEntry(columns, acc, i, row) ==
    IF RowValidates(columns, row)
    THEN [acc EXCEPT !.cleaned = Append(@, row)]
    ELSE acc

\* one pass of the loop of _validate_with_model: try: cleaned.append(...)
\* except Exception as exc: errors.append(f"row {i}: {exc}")
ValidateStep(columns, acc, i, row) ==
    IF RowValidates(columns, row)
    THEN [acc EXCEPT !.cleaned = Append(@, row)]
    ELSE [acc EXCEPT !.errors = Append(@, i)]

\* for i, row in enumerate(rows): ...   (rows[k] is row number k - 1)
RECURSIVE ValidateLoop(_, _, _, _)
ValidateLoop(columns, rows, k, acc) ==
    IF k > Len(rows) THEN acc
    ELSE ValidateLoop(columns, rows, k + 1, ValidateStep(columns, acc, k - 1, rows[k]))

\* _validate_with_model: the rows whose Record is kept, and the error entries
ValidateAll(columns, rows) ==
    ValidateLoop(columns, rows, 1, [cleaned |-> <<>>, errors |-> <<>>])

\* _validate_with_model: the rows that validate, in order
ValidateWithModel(columns, rows) == ValidateAll(columns, rows).cleaned

\* pd.DataFrame(cleaned).columns: the keys of the Records, in the order in
\* which they first appear
RECURSIVE DataFrameColumns(_, _, _)
DataFrameColumns(columns, include, cleaned) ==
    IF cleaned = <<>> THEN <<>>
    ELSE AppendMissing(
            DataFrameColumns(columns, include, SubSeq(cleaned, 1, Len(cleaned) - 1)),
            RecordKeys(columns, include, cleaned[Len(cleaned)]))

\* _enforce_order: the columns of the table it returns
EnforceOrderColumns(dfcols, requested) ==
    IF requested.isNone THEN dfcols
    ELSE LET cols == SelectSeq(requested.v, LAMBDA c : c \in Range(dfcols))
         IN IF cols # <<>> THEN cols ELSE requested.v

\* _enforce_order: the rows of the table it returns; with no requested
\* column in the frame it returns a new frame without rows
EnforceOrderRows(dfcols, requested, cleaned) ==
    IF requested.isNone THEN cleaned
    ELSE IF SelectSeq(requested.v, LAMBDA c : c \in Range(dfcols)) # <<>>
    THEN cleaned ELSE <<>>

OutPaths == {NoneStr, Some("out/x.csv"), Some("out/x"), Some("out/x.xlsx")}
OutFormats == {NoneStr, Some("csv"), Some("jsonl"), Some("parquet"), Some("xlsx")}

\* Path(out).suffix.lower().lstrip(".")
Suffix(path) ==
    CASE path = "out/x.csv" -> "csv" [] path = "out/x.xlsx" -> "xlsx" [] OTHER -> ""

\* out_format or suffix or "csv"
WriteFormat(out, out_format) ==
    IF ~out_format.isNone /\ out_format.v # "" THEN out_format.v
    ELSE IF Suffix(out.v) # "" THEN Suffix(out.v) ELSE "csv"

\* _write_df returns at once: `if not out`
WriteSkipped(out) == out.isNone \/ out.v = ""

\* (faulty variant) no `else: raise ValueError`
WriteSupported_AnyFormat(fmt) == TRUE

\* the branches of _write_df that write
WriteSupported(fmt) == fmt \in {"csv", "parquet", "pq", "jsonl"}

---------------------------------------------------------------------------
(* pipeline/extraction_pipeline.py: run_resource                           *)
Resources == {"demographics", "wards"}
GroupingModes == {"cases", "patients", "wards"}
RunFieldLists ==
    {None, Some(<<>>), Some(<<"patient_sex">>), Some(<<"patient_age_at_admission">>),
     Some(<<"case_number", "patient_sex", "case_number">>)}

\* (faulty variant) `if audit is None`
AuditDue_Inverted(audit_given) == ~audit_given

\* `if audit is not None`
AuditDue(audit_given) == audit_given

\* derived_added = sorted(set(fetched) - set(requested))
DerivedAdded(fields, fetch_fields) ==
    (IF fetch_fields.isNone THEN {} ELSE Range(fetch_fields.v))
        \ (IF fields.isNone THEN {} ELSE Range(fields.v))

RunInit ==
    /\ r_pc = "ready"
    /\ r_resource = "" /\ r_by = "" /\ r_ids = <<>> /\ r_fields = None
    /\ r_hash_salt = NoneStr /\ r_audit = FALSE
    /\ r_fetch_fields = None /\ r_include_fields = None
    /\ r_out = NoneStr /\ r_out_format = NoneStr
    /\ r_cleaned = <<>> /\ r_errors = <<>>
    /\ r_df = <<>> /\ r_columns = <<>>
    /\ r_dest = "untouched"
    /\ r_error = "none"

RunIdle ==
    /\ r_pc = "idle"
    /\ r_resource = "" /\ r_by = "" /\ r_ids = <<>> /\ r_fields = None
    /\ r_hash_salt = NoneStr /\ r_audit = FALSE
    /\ r_fetch_fields = None /\ r_include_fields = None
    /\ r_out = NoneStr /\ r_out_format = NoneStr
    /\ r_cleaned = <<>> /\ r_errors = <<>>
    /\ r_df = <<>> /\ r_columns = <<>>
    /\ r_dest = "untouched"
    /\ r_error = "none"

runArgs == <<r_resource, r_by, r_ids, r_fields, r_hash_salt, r_audit>>
runPlan == <<r_fetch_fields, r_include_fields>>
runTable == <<r_cleaned, r_errors, r_df, r_columns>>

\* (faulty variant) the plan's grouping-mode check is skipped
RunPrecheck_NoPlanCheck(resource, by, fields) ==
    IF resource \notin DOMAIN REGISTRY THEN "UnknownResource"
    ELSE IF by \notin {"cases", "patients"} THEN "InvalidGroupingMode"
    ELSE IF by \notin REGISTRY[resource].fetchers THEN "UnsupportedGroupingMode"
    ELSE "none"

\* the error run_resource raises before it fetches, "none" if it does not
RunPrecheck(resource, by, fields) ==
    IF resource \notin DOMAIN REGISTRY THEN "UnknownResource"
    ELSE IF by \notin {"cases", "patients"} THEN "InvalidGroupingMode"
    ELSE IF PlanRaises(REGISTRY[resource], by, fields) THEN "GroupingModeFieldMismatch"
    ELSE IF by \notin REGISTRY[resource].fetchers THEN "UnsupportedGroupingMode"
    ELSE "none"

\* run_resource is called: checks, plan, make_fetcher(fetch_func).iter(**params)
RCall(resource, by, ids, fields, hash_salt, audit_given) ==
    /\ r_pc = "ready"
    /\ r_resource' = resource /\ r_by' = by /\ r_ids' = ids /\ r_fields' = fields
    /\ r_hash_salt' = hash_salt /\ r_audit' = audit_given
    /\ r_error' = RunPrecheck(resource, by, fields)
    /\ IF RunPrecheck(resource, by, fields) # "none"
       THEN /\ r_pc' = "failed"
            /\ UNCHANGED <<runPlan, fetchVars>>
       ELSE /\ r_pc' = "fetch"
            /\ r_fetch_fields' = PlanFetchFields(REGISTRY[resource], p_iter, fields)
            /\ r_include_fields' = PlanIncludeFields(fields)
            /\ f_api' = "iter"
            /\ f_defaults' = Absent
            /\ f_overrides' = ListVal(ids)
            /\ f_pc' = "new"
            /\ UNCHANGED <<f_max_items, f_transform, f_path, f_i, f_buf, f_db,
                           sessions, f_calls, f_delivered, f_exit, f_raised,
                           f_outcome, f_error>>
    /\ UNCHANGED <<r_out, r_out_format, runTable, r_dest, planVars, auditVars,
                   engineVars, layerVars>>

\* rows = list(fetcher.iter(**params)) raised
RFetchRaises ==
    /\ r_pc = "fetch" /\ f_pc = "done" /\ f_error # "none"
    /\ r_pc' = "failed"
    /\ r_error' = f_error
    /\ UNCHANGED <<runArgs, runPlan, r_out, r_out_format, runTable, r_dest,
                   planVars, auditVars, fetchVars, engineVars, layerVars>>

\* rows = list(...); cleaned = _validate_with_model(...); df = _enforce_order(...)
RValidate ==
    /\ r_pc = "fetch" /\ f_pc = "done" /\ f_error = "none"
    /\ LET columns == FetchedColumns(r_by, r_fetch_fields)
           result  == ValidateAll(columns, f_delivered)
           dfcols  == DataFrameColumns(columns, r_include_fields, result.cleaned)
       IN /\ r_cleaned' = result.cleaned
          /\ r_errors' = result.errors
          /\ r_df' = EnforceOrderRows(dfcols, r_include_fields, result.cleaned)
          /\ r_columns' = EnforceOrderColumns(dfcols, r_include_fields)
    /\ r_pc' = "persist"
    /\ UNCHANGED <<runArgs, runPlan, r_out, r_out_format, r_dest, r_error,
                   planVars, auditVars, fetchVars, engineVars, layerVars>>

\* _write_df(df, out, out_format); io_ok: the writer does not raise
RPersist(out, out_format, io_ok) ==
    /\ r_pc = "persist"
    /\ r_out' = out /\ r_out_format' = out_format
    /\ IF WriteSkipped(out)
       THEN r_pc' = "audit" /\ r_error' = "none" /\ r_dest' = "untouched"
       ELSE IF ~WriteSupported(WriteFormat(out, out_format))
       THEN r_pc' = "failed" /\ r_error' = "UnsupportedOutputFormat"
            /\ r_dest' = "parent_dir"
       ELSE IF io_ok
       THEN r_pc' = "audit" /\ r_error' = "none" /\ r_dest' = "file"
       ELSE r_pc' = "failed" /\ r_error' = "WriteError" /\ r_dest' = "partial_file"
    /\ UNCHANGED <<runArgs, runPlan, runTable, planVars, auditVars, fetchVars,
                   engineVars, layerVars>>

\* the keyword arguments run_resource hands to audit.log_access
RunAuditCall ==
    [ids            |-> [k \in 1..Len(r_ids) |-> Str(r_ids[k])],
     fields         |-> r_fields,
     fetch_fields   |-> r_fetch_fields,
     include_fields |-> r_include_fields,
     derived_added  |-> DerivedAdded(r_fields, r_fetch_fields),
     hashed         |-> ~(r_hash_salt.isNone \/ r_hash_salt.v = ""),
     out            |-> r_out,
     out_format     |-> r_out_format,
     rows           |-> Len(r_df)]

\* if audit is not None: audit.log_access(...); return df
RAudit ==
    /\ r_pc = "audit"
    /\ IF AuditDue(r_audit)
       THEN /\ a_fh' = a_fh \o <<JsonPiece(AuditRecord(a_logger, RunAuditCall)),
                                 NewlinePiece>>
            /\ a_calls' = Append(a_calls, RunAuditCall)
            /\ a_flushed' = Flush(a_fh', a_flushed)
       ELSE UNCHANGED <<a_fh, a_calls, a_flushed>>
    /\ r_pc' = "done"
    /\ UNCHANGED <<runArgs, runPlan, r_out, r_out_format, runTable, r_dest, r_error,
                   a_logger, planVars, fetchVars, engineVars, layerVars>>

RunCalls ==
    /\ r_pc = "ready"
    /\ \E resource \in Resources, by \in GroupingModes, ids \in SeqsUpTo(Ids, MaxIds),
          fields \in RunFieldLists, hash_salt \in {NoneStr, Some("pepper")},
          audit_given \in BOOLEAN :
            RCall(resource, by, ids, fields, hash_salt, audit_given)

RunPersists ==
    /\ r_pc = "persist"
    /\ \E out \in OutPaths, out_format \in OutFormats, io_ok \in BOOLEAN :
          RPersist(out, out_format, io_ok)

\* list(...) draws every row: the stream is never closed early
RunNext ==
    \/ RunCalls \/ RFetchRaises \/ RValidate \/ RunPersists \/ RAudit
    \/ FStart \/ FQuery \/ FQueryRaises \/ FYield \/ FLazyQueryRaises
    \/ FResume \/ FFinish

---------------------------------------------------------------------------
(* connection/session.py: get_engine, get_sessionmaker                     *)

\* The interpreter may switch threads between any two reads or writes of
\* the module globals; each action below is one such read or write.
Threads == 1..NThreads

NoFactory == [id |-> 0, bind |-> 0]

EngineResult(e) == [api |-> "get_engine", engine |-> e, factory |-> NoFactory]
FactoryResult(f) == [api |-> "get_sessionmaker", engine |-> 0, factory |-> f]

EngineInit ==
    /\ g_engine = 0
    /\ g_SessionLocal = NoFactory
    /\ g_engines = 0
    /\ g_factories = 0
    /\ t_api = [t \in Threads |-> "none"]
    /\ t_pc = [t \in Threads |-> "idle"]
    /\ t_bind = [t \in Threads |-> 0]
    /\ t_results = [t \in Threads |-> <<>>]

EngineIdle ==
    /\ g_engine = 0
    /\ g_SessionLocal = NoFactory
    /\ g_engines = 0
    /\ g_factories = 0
    /\ t_api = [t \in Threads |-> "none"]
    /\ t_pc = [t \in Threads |-> "off"]
    /\ t_bind = [t \in Threads |-> 0]
    /\ t_results = [t \in Threads |-> <<>>]

notEngineVars == <<planVars, auditVars, fetchVars, runVars, layerVars>>

\* a thread calls get_engine() or get_sessionmaker()
TCall(t, api) ==
    /\ t_pc[t] = "idle"
    /\ Len(t_results[t]) < MaxCalls
    /\ t_api' = [t_api EXCEPT ![t] = api]
    /\ t_pc' = [t_pc EXCEPT ![t] = IF api = "get_engine" THEN "e_test" ELSE "s_test"]
    /\ UNCHANGED <<g_engine, g_SessionLocal, g_engines, g_factories, t_bind,
                   t_results, notEngineVars>>

\* get_engine: `if _engine is None:`
TEngineTest(t) ==
    /\ t_pc[t] = "e_test"
    /\ t_pc' = [t_pc EXCEPT ![t] = IF g_engine = 0 THEN "e_create" ELSE "e_return"]
    /\ UNCHANGED <<g_engine, g_SessionLocal, g_engines, g_factories, t_api,
                   t_bind, t_results, notEngineVars>>

\* get_engine: `_engine = create_engine(...)`
TEngineCreate(t) ==
    /\ t_pc[t] = "e_create"
    /\ g_engines' = g_engines + 1
    /\ g_engine' = g_engines + 1
    /\ t_pc' = [t_pc EXCEPT ![t] = "e_return"]
    /\ UNCHANGED <<g_SessionLocal, g_factories, t_api, t_bind, t_results,
                   notEngineVars>>

\* get_engine: `return _engine`, to the caller or to get_sessionmaker
TEngineReturn(t) ==
    /\ t_pc[t] = "e_return"
    /\ IF t_api[t] = "get_engine"
       THEN /\ t_results' = [t_results EXCEPT ![t] = Append(@, EngineResult(g_engine))]
            /\ t_pc' = [t_pc EXCEPT ![t] = "idle"]
            /\ UNCHANGED t_bind
       ELSE /\ t_bind' = [t_bind EXCEPT ![t] = g_engine]
            /\ t_pc' = [t_pc EXCEPT ![t] = "s_make"]
            /\ UNCHANGED t_results
    /\ UNCHANGED <<g_engine, g_SessionLocal, g_engines, g_factories, t_api,
                   notEngineVars>>

\* get_sessionmaker: `if _SessionLocal is None:`; if so, bind=get_engine()
TFactoryTest(t) ==
    /\ t_pc[t] = "s_test"
    /\ t_pc' = [t_pc EXCEPT ![t] = IF g_SessionLocal = NoFactory THEN "e_test"
                                                                ELSE "s_return"]
    /\ UNCHANGED <<g_engine, g_SessionLocal, g_engines, g_factories, t_api,
                   t_bind, t_results, notEngineVars>>

\* get_sessionmaker: `_SessionLocal = sessionmaker(bind=..., ...)`
TFactoryMake(t) ==
    /\ t_pc[t] = "s_make"
    /\ g_factories' = g_factories + 1
    /\ g_SessionLocal' = [id |-> g_factories + 1, bind |-> t_bind[t]]
    /\ t_pc' = [t_pc EXCEPT ![t] = "s_return"]
    /\ UNCHANGED <<g_engine, g_engines, t_api, t_bind, t_results, notEngineVars>>

\* get_sessionmaker: `return _SessionLocal`
TFactoryReturn(t) ==
    /\ t_pc[t] = "s_return"
    /\ t_results' = [t_results EXCEPT ![t] = Append(@, FactoryResult(g_SessionLocal))]
    /\ t_pc' = [t_pc EXCEPT ![t] = "idle"]
    /\ UNCHANGED <<g_engine, g_SessionLocal, g_engines, g_factories, t_api,
                   t_bind, notEngineVars>>

ThreadCalls == \E t \in Threads, api \in {"get_engine", "get_sessionmaker"} : TCall(t, api)
EngineTests == \E t \in Threads : TEngineTest(t)
EngineCreates == \E t \in Threads : TEngineCreate(t)
EngineReturns == \E t \in Threads : TEngineReturn(t)
FactoryTests == \E t \in Threads : TFactoryTest(t)
FactoryMakes == \E t \in Threads : TFactoryMake(t)
FactoryReturns == \E t \in Threads : TFactoryReturn(t)

EngineNext ==
    \/ ThreadCalls \/ EngineTests \/ EngineCreates \/ EngineReturns
    \/ FactoryTests \/ FactoryMakes \/ FactoryReturns

---------------------------------------------------------------------------
(* connection/fetcher.py: with_db_session, Fetcher.__call__                *)

notEagerVars == <<hashVars, dumpVars, logVars,
                  planVars, auditVars, fetchVars, runVars, engineVars>>

EagerInit ==
    /\ c_pc = "new"
    /\ c_lazy \in BOOLEAN
    /\ c_ids \in SeqsUpTo(Ids, MaxIds)
    /\ c_sessions = <<>>
    /\ c_pending = <<>>
    /\ c_reads = <<>>
    /\ c_rows = <<>>
    /\ c_error = "none"

EagerIdle ==
    /\ c_pc = "idle"
    /\ c_lazy = FALSE
    /\ c_ids = <<>>
    /\ c_sessions = <<>>
    /\ c_pending = <<>>
    /\ c_reads = <<>>
    /\ c_rows = <<>>
    /\ c_error = "none"

\* wrapper: `with get_session() as db:`
EEnter ==
    /\ c_pc = "new"
    /\ c_sessions' = <<NewSession>>
    /\ c_pc' = "in_with"
    /\ UNCHANGED <<c_lazy, c_ids, c_pending, c_reads, c_rows, c_error, notEagerVars>>

\* wrapper: fn(*args, session=db, **kwargs) returns.  A query function
\* that builds a list has read every row from the store by now; a
\* generator function has not run a statement of its body yet.
EQuery ==
    /\ c_pc = "in_with"
    /\ c_pending' = QueryRows(ListVal(c_ids))
    /\ IF c_lazy
       THEN UNCHANGED <<c_sessions, c_reads>>
       ELSE /\ c_sessions' = [c_sessions EXCEPT ![1] = Execute(@)]
            /\ c_reads' = [k \in 1..Len(QueryRows(ListVal(c_ids))) |-> c_sessions[1].open]
    /\ c_pc' = "leaving"
    /\ UNCHANGED <<c_lazy, c_ids, c_rows, c_error, notEagerVars>>

\* wrapper: fn(...) raises inside the with-block
EQueryRaises ==
    /\ c_pc = "in_with" /\ ~c_lazy
    /\ c_sessions' = [c_sessions EXCEPT ![1] = GetSessionExit(Execute(@), "exception", TRUE)]
    /\ c_error' = GetSessionRaises("exception", "QueryError", TRUE)
    /\ c_pc' = "done"
    /\ UNCHANGED <<c_lazy, c_ids, c_pending, c_reads, c_rows, notEagerVars>>

\* wrapper: `return` leaves the with-block: commit (which may raise), close
ELeave ==
    /\ c_pc = "leaving"
    /\ \E commit_ok \in BOOLEAN :
          /\ c_sessions' = [c_sessions EXCEPT ![1] = GetSessionExit(@, "normal", commit_ok)]
          /\ c_error' = GetSessionRaises("normal", "none", commit_ok)
          /\ c_pc' = IF commit_ok THEN "listing" ELSE "done"
    /\ UNCHANGED <<c_lazy, c_ids, c_pending, c_reads, c_rows, notEagerVars>>

\* __call__: list(...) takes the next row.  From a generator this runs the
\* query function's body now, on the session the with-block has closed.
EListRow ==
    /\ c_pc = "listing" /\ c_pending # <<>>
    /\ c_rows' = Append(c_rows, Head(c_pending))
    /\ c_pending' = Tail(c_pending)
    /\ IF c_lazy
       THEN /\ c_reads' = Append(c_reads, c_sessions[1].open)
            /\ c_sessions' = [c_sessions EXCEPT ![1] = Execute(@)]
       ELSE UNCHANGED <<c_sessions, c_reads>>
    /\ UNCHANGED <<c_pc, c_lazy, c_ids, c_error, notEagerVars>>

\* __call__: the generator raises because its session or result is closed
ELazyRaises ==
    /\ c_pc = "listing" /\ c_lazy /\ c_pending # <<>>
    /\ c_error' = "QueryError"
    /\ c_pc' = "done"
    /\ UNCHANGED <<c_lazy, c_ids, c_sessions, c_pending, c_reads, c_rows, notEagerVars>>

\* __call__: the list is complete; return self._apply_transform(rows)
EReturn ==
    /\ c_pc = "listing" /\ c_pending = <<>>
    /\ c_pc' = "done"
    /\ UNCHANGED <<c_lazy, c_ids, c_sessions, c_pending, c_reads, c_rows, c_error,
                   notEagerVars>>

EagerNext ==
    \/ EEnter \/ EQuery \/ EQueryRaises \/ ELeave \/ EListRow \/ ELazyRaises \/ EReturn

---------------------------------------------------------------------------
(* pipeline/audit_logger.py: threads that share one AuditLogger            *)

\* The interpreter may switch threads between any two calls on the sink's
\* file object; each action below is one such call.
LogThreads == 1..NThreads

LogInit ==
    /\ l_pc = [t \in LogThreads |-> "call"]
    /\ l_kw \in [LogThreads -> {PlainCall(<<Str(i)>>) : i \in IdTexts}]

LogIdle ==
    /\ l_pc = [t \in LogThreads |-> "off"]
    /\ l_kw = [t \in LogThreads |-> PlainCall(<<>>)]

notLogVars == <<hashVars, dumpVars, eagerVars,
                planVars, fetchVars, runVars, engineVars>>

\* log_access: self._fh.write(json.dumps(record, ensure_ascii=False))
LWriteRecord(t) ==
    /\ l_pc[t] = "call"
    /\ a_fh' = Append(a_fh, JsonPiece(AuditRecord(a_logger, l_kw[t])))
    /\ a_calls' = Append(a_calls, l_kw[t])
    /\ l_pc' = [l_pc EXCEPT ![t] = "wrote_record"]
    /\ UNCHANGED <<a_logger, a_flushed, l_kw, notLogVars>>

\* log_access: self._fh.write("\n")
LWriteNewline(t) ==
    /\ l_pc[t] = "wrote_record"
    /\ a_fh' = Append(a_fh, NewlinePiece)
    /\ l_pc' = [l_pc EXCEPT ![t] = "wrote_newline"]
    /\ UNCHANGED <<a_logger, a_calls, a_flushed, l_kw, notLogVars>>

\* log_access: self._fh.flush()
LFlush(t) ==
    /\ l_pc[t] = "wrote_newline"
    /\ a_flushed' = Flush(a_fh, a_flushed)
    /\ l_pc' = [l_pc EXCEPT ![t] = "returned"]
    /\ UNCHANGED <<a_logger, a_fh, a_calls, l_kw, notLogVars>>

LogWritesRecord == \E t \in LogThreads : LWriteRecord(t)
LogWritesNewline == \E t \in LogThreads : LWriteNewline(t)
LogFlushes == \E t \in LogThreads : LFlush(t)

LogNext == LogWritesRecord \/ LogWritesNewline \/ LogFlushes

LayersIdle == HashIdle /\ DumpIdle /\ EagerIdle /\ LogIdle

---------------------------------------------------------------------------
(* Specifications                                                          *)
InitPlan == PlanInit /\ AuditIdle /\ FetchIdle /\ RunIdle /\ EngineIdle /\ LayersIdle

SpecPlan == InitPlan /\ [][PlanNext]_vars

InitAudit == AuditInit /\ PlanIdle /\ FetchIdle /\ RunIdle /\ EngineIdle /\ LayersIdle

SpecAudit == InitAudit /\ [][AuditNext]_vars

InitRun ==
    /\ RunInit /\ FetchIdle /\ EngineIdle /\ LayersIdle
    /\ a_logger \in {AuditLogger(TRUE, MaxSampleSize, salt) : salt \in Salts}
    /\ a_fh = <<>> /\ a_calls = <<>> /\ a_flushed = 0
    /\ p_iter \in SetIterOrders(DEMOGRAPHICS_SPEC)
    /\ p_by = "cases" /\ p_requested = None /\ p_pc = "idle"
    /\ p_result = [fetch_fields |-> None, include_fields |-> None]

SpecRun == InitRun /\ [][RunNext]_vars

Init == FetchInit /\ PlanIdle /\ AuditIdle /\ RunIdle /\ EngineIdle /\ LayersIdle

Next == FetchNext

Spec == Init /\ [][Next]_vars

InitEngine == EngineInit /\ PlanIdle /\ AuditIdle /\ FetchIdle /\ RunIdle /\ LayersIdle

SpecEngine == InitEngine /\ [][EngineNext]_vars

InitHash ==
    /\ HashInit /\ DumpIdle /\ EagerIdle /\ LogIdle
    /\ PlanIdle /\ AuditIdle /\ FetchIdle /\ RunIdle /\ EngineIdle

SpecHash == InitHash /\ [][HashCall]_vars

InitDump ==
    /\ DumpInit /\ HashIdle /\ EagerIdle /\ LogIdle
    /\ PlanIdle /\ AuditIdle /\ FetchIdle /\ RunIdle /\ EngineIdle

SpecDump == InitDump /\ [][DumpNext]_vars

InitNormalize ==
    /\ NormalizeInit /\ HashIdle /\ EagerIdle /\ LogIdle
    /\ PlanIdle /\ AuditIdle /\ FetchIdle /\ RunIdle /\ EngineIdle

SpecNormalize == InitNormalize /\ [][DumpNext]_vars

InitEager ==
    /\ EagerInit /\ HashIdle /\ DumpIdle /\ LogIdle
    /\ PlanIdle /\ AuditIdle /\ FetchIdle /\ RunIdle /\ EngineIdle

SpecEager == InitEager /\ [][EagerNext]_vars

InitLog ==
    /\ LogInit /\ HashIdle /\ DumpIdle /\ EagerIdle
    /\ a_logger \in {AuditLogger(s, n, salt) :
                        s \in BOOLEAN, n \in 0..MaxSampleSize, salt \in Salts}
    /\ a_fh = <<>> /\ a_calls = <<>> /\ a_flushed = 0
    /\ PlanIdle /\ FetchIdle /\ RunIdle /\ EngineIdle

SpecLog == InitLog /\ [][LogNext]_vars

---------------------------------------------------------------------------
(* C1: whenever the planner accepts a non-empty request, fetch_fields holds *)
(* every requested field that is not a derived-field name and every        *)
(* dependency of every requested derived field.                            *)
C1_FetchCoversRequestAndDeps ==
    (p_pc = "returned" /\ ~p_requested.isNone /\ p_requested.v # <<>>) =>
        LET spec  == DEMOGRAPHICS_SPEC
            fetch == Range(p_result.fetch_fields.v)
            req   == Range(p_requested.v)
        IN /\ ~p_result.fetch_fields.isNone
           /\ (req \ DOMAIN spec.derived_deps) \subseteq fetch
           /\ \A n \in req \cap DOMAIN spec.derived_deps :
                 spec.derived_deps[n] \subseteq fetch

\* a derived field was requested without its base fields, and they were fetched
C1_Witness ==
    /\ p_pc = "returned"
    /\ p_requested = Some(<<"patient_age_at_admission">>)
    /\ Range(p_result.fetch_fields.v) = {"patient_date_of_birth", "case_admission_time"}

---------------------------------------------------------------------------
(* C2: a record carries identifier values only if sampling was enabled on   *)
(* the sink; with sampling enabled and a (non-empty) salt configured every  *)
(* sampled identifier is written as a salted digest, never raw; the         *)
(* identifier count is in every record.                                     *)
SaltConfigured(self) == self.hash_ids /\ self.id_hash_salt # ""

\* C2: no raw identifier in a record of a sink with a salt
C2_AuditIdsSafe ==
    /\ Len(WrittenRecords) = Len(a_calls)
    /\ \A k \in 1..Len(WrittenRecords) :
          LET summary == WrittenRecords[k].rec.ids
              ids     == a_calls[k].ids
          IN /\ summary.count = Len(ids)
             /\ ~a_logger.include_id_samples =>
                   (summary.key = "none" /\ summary.values = <<>>)
             /\ (a_logger.include_id_samples /\ SaltConfigured(a_logger)) =>
                   /\ summary.key \in {"none", "hashed_ids"}
                   /\ \A v \in Range(summary.values) :
                         /\ v.h /\ v.salt = a_logger.id_hash_salt
                         /\ v \notin Range(ids)

\* a sampling sink with a salt has written a record holding a digest
C2_Witness ==
    /\ a_logger.include_id_samples
    /\ SaltConfigured(a_logger)
    /\ \E k \in 1..Len(WrittenRecords) :
          /\ WrittenRecords[k].rec.ids.key = "hashed_ids"
          /\ WrittenRecords[k].rec.ids.values # <<>>
          /\ WrittenRecords[k].rec.ids.count > Len(WrittenRecords[k].rec.ids.values)

---------------------------------------------------------------------------
(* C3 (as claimed): every run_resource call that was given an audit sink   *)
(* and whose query function returned rows from the store ends, normally or *)
(* with an error, with an audit record appended for it.                    *)
C3_AuditOnEveryFetch ==
    (r_pc \in {"done", "failed"} /\ r_audit /\ f_calls # <<>> /\ f_raised = "none") =>
        Len(WrittenRecords) = 1

(* C3 (amended): a run_resource call that was given an audit sink and      *)
(* returns normally has appended exactly one record, for its identifiers   *)
(* and its table; a call that fails in the fetch or while writing the      *)
(* output appends none, although the query function ran.                   *)
C3_AuditOnReturn ==
    /\ (r_pc = "done" /\ r_audit) =>
          /\ f_calls # <<>>
          /\ Len(WrittenRecords) = 1
          /\ a_fh[Len(a_fh)].nl
          /\ WrittenRecords[1].rec.ids.count = Len(r_ids)
          /\ WrittenRecords[1].rec.rows = Len(r_df)
    /\ r_pc = "failed" => a_fh = <<>>
    /\ ~r_audit => a_fh = <<>>

\* a call with a sink fetched rows, wrote its output and was audited
C3_Witness ==
    /\ r_pc = "done" /\ r_audit
    /\ f_delivered # <<>> /\ r_dest = "file"
    /\ Len(WrittenRecords) = 1

---------------------------------------------------------------------------
(* Vocabulary of the claims about the fetch layer                          *)
StreamApi == f_api \in {"iter", "batched_iter"}
TheParam == MergedParam(f_defaults, f_overrides)
TheIds == SeqOf(f_defaults, f_overrides).ids

\* what one unchunked query over the parameters yields, transformed
Unchunked == TransformAll(f_transform, QueryRows(TheParam))

IsPrefix(a, b) == Len(a) <= Len(b) /\ SubSeq(b, 1, Len(a)) = a

Min(a, b) == IF a < b THEN a ELSE b

\* the identifiers at positions [(k-1)*K, k*K) of the original sequence
ExpectedChunk(k) ==
    SubSeq(TheIds, (k - 1) * f_max_items + 1, Min(k * f_max_items, Len(TheIds)))

\* ceil(n / max_items)
NChunks == (Len(TheIds) + f_max_items - 1) \div f_max_items

\* the transformed rows of the first m invocations, in invocation order
RECURSIVE RowsOfCalls(_)
RowsOfCalls(m) ==
    IF m = 0 THEN <<>>
    ELSE RowsOfCalls(m - 1) \o TransformAll(f_transform, QueryRows(f_calls[m].arg))

---------------------------------------------------------------------------
(* C4: once a stream of iter or batched_iter has ended (exhausted, closed  *)
(* or finalised after being abandoned, or failed), no session it opened is *)
(* still open.                                                             *)
C4_ConnectionReleased ==
    (StreamApi /\ f_pc = "done") =>
        \A k \in 1..Len(sessions) :
            /\ ~sessions[k].open
            /\ ~sessions[k].tx
            /\ sessions[k].log[Len(sessions[k].log)] = "close"

\* the consumer closed a stream that still had rows to yield
C4_Witness ==
    /\ StreamApi /\ f_pc = "done" /\ f_outcome = "closed"
    /\ f_buf # <<>> /\ f_delivered # <<>>
    /\ Len(sessions) = 1 /\ ~sessions[1].open

(* C5: with n > max_items >= 1 identifiers the k-th invocation receives the *)
(* identifiers at positions [(k-1)*max_items, k*max_items); a fully        *)
(* consumed stream has made exactly ceil(n / max_items) invocations; rows  *)
(* are yielded in chunk order and, within a chunk, in the query's order.   *)
C5_ChunksInOrder ==
    (f_api = "batched_iter" /\ f_max_items >= 1 /\ f_db # 0
       /\ TheParam.kind = "list" /\ Len(TheIds) > f_max_items) =>
        /\ f_path = "chunked"
        /\ Len(f_calls) <= NChunks
        /\ \A k \in 1..Len(f_calls) :
              /\ f_calls[k].arg = ListVal(ExpectedChunk(k))
              /\ Len(f_calls[k].arg.ids) \in 1..f_max_items
        /\ IsPrefix(f_delivered, RowsOfCalls(Len(f_calls)))
        /\ f_outcome = "exhausted" =>
              /\ Len(f_calls) = NChunks
              /\ f_delivered = RowsOfCalls(NChunks)

\* three identifiers in chunks of two: a full chunk and a shorter last one
C5_Witness ==
    /\ f_api = "batched_iter" /\ f_outcome = "exhausted"
    /\ f_max_items = 2 /\ Len(TheIds) = 3
    /\ Len(f_calls) = 2 /\ Len(f_calls[2].arg.ids) = 1
    /\ Len(f_delivered) >= 3

(* C6: a chunked batched_iter acquires exactly one session; every          *)
(* invocation runs on it while it is open; it is released only once the    *)
(* stream has ended, and after the last chunk if the stream was exhausted. *)
C6_SingleConnection ==
    f_path = "chunked" =>
        /\ Len(sessions) = 1 /\ f_db = 1
        /\ \A k \in 1..Len(f_calls) : f_calls[k].session = 1 /\ f_calls[k].open
        /\ sessions[1].open <=> f_pc # "done"
        /\ (f_outcome = "exhausted" /\ f_max_items >= 1) =>
              (Len(f_calls) = NChunks /\ f_buf = <<>>)

\* three invocations were made on the one session, now released
C6_Witness ==
    /\ f_path = "chunked" /\ f_outcome = "exhausted"
    /\ Len(f_calls) = 3 /\ Len(sessions) = 1 /\ ~sessions[1].open

(* C7: a fully consumed batched_iter yields, for every chunk size, the     *)
(* rows a fully consumed unchunked iter yields over the same parameters.   *)
C7_BatchedEqualsUnchunked ==
    (StreamApi /\ f_outcome = "exhausted") => f_delivered = Unchunked

\* a stream that ran in several chunks and delivered rows
C7_Witness ==
    /\ f_api = "batched_iter" /\ f_path = "chunked" /\ f_outcome = "exhausted"
    /\ Len(f_calls) >= 2 /\ Len(f_delivered) >= 2

(* C8: when the list parameter is absent, is no plain sequence, is empty   *)
(* or has at most max_items elements, batched_iter raises no error of its  *)
(* own, invokes the query once with the parameters unmodified and yields   *)
(* the rows iter yields.                                                   *)
DegradeCase ==
    \/ TheParam = Absent
    \/ TheParam.kind \in NonSeqKinds
    \/ TheParam.kind = "list" /\ (TheIds = <<>> \/ Len(TheIds) <= f_max_items)

C8_SilentDegrade ==
    (f_api = "batched_iter" /\ DegradeCase) =>
        /\ f_path \in {"none", "stream"}
        /\ f_raised # "ValueError"
        /\ Len(f_calls) <= 1
        /\ \A k \in 1..Len(f_calls) : f_calls[k].arg = TheParam
        /\ IsPrefix(f_delivered, Unchunked)
        /\ f_outcome = "exhausted" => (Len(f_calls) = 1 /\ f_delivered = Unchunked)

\* a str longer than max_items was passed through unchunked
C8_Witness ==
    /\ f_api = "batched_iter" /\ TheParam.kind = "str"
    /\ Len(TheParam.ids) > f_max_items
    /\ f_outcome = "exhausted" /\ f_delivered # <<>>

(* C9 (state part): when the query function raises, the same error reaches *)
(* consumer, the session is rolled back and released, the failed query is  *)
(* the last invocation (no retry, no further chunk), and every row yielded *)
(* before stays delivered.                                                 *)
C9_State ==
    f_raised = "QueryError" =>
        /\ f_pc = "done" /\ f_outcome = "error" /\ f_error = "QueryError"
        /\ sessions[f_db].log = <<"rollback", "close">>
        /\ ~sessions[f_db].open /\ ~sessions[f_db].tx
        /\ IF f_path = "chunked"
           THEN /\ \A k \in 1..Len(f_calls) : f_calls[k].arg = ListVal(ExpectedChunk(k))
                /\ f_delivered = RowsOfCalls(Len(f_calls) - 1)
           ELSE /\ Len(f_calls) = 1
                /\ IsPrefix(f_delivered, Unchunked)

\* C9 (step part): delivered rows are never retracted, and once an error
\* was raised no query is invoked and no row delivered
C9_Step ==
    /\ IsPrefix(f_delivered, f_delivered')
    /\ f_raised # "none" => (f_calls' = f_calls /\ f_delivered' = f_delivered)

\* C9: the state and the step property above, in every behaviour
C9_QueryErrorPropagates == [](C9_State) /\ [][C9_Step]_vars

\* the second chunk's query failed after the first chunk's rows were yielded
C9_Witness ==
    /\ f_path = "chunked" /\ f_raised = "QueryError"
    /\ Len(f_calls) = 2 /\ f_delivered # <<>>

(* C10: a use of get_session (by a stream or through get_db) whose body    *)
(* completed normally is committed; one whose body or commit raised an     *)
(* exception is rolled back and the exception re-raised; in every case the *)
(* session is closed last and has no active transaction.                   *)
C10_SessionCleanup ==
    (f_pc = "done" /\ f_db # 0) =>
        LET s == sessions[f_db]
        IN /\ f_exit = "normal" =>
                /\ s.log[1] = "commit"
                /\ f_error = "none" => s.log = <<"commit", "close">>
                /\ f_error # "none" =>
                      (f_error = "CommitError" /\ s.log = <<"commit", "rollback", "close">>)
           /\ f_exit = "exception" =>
                /\ s.log = <<"rollback", "close">>
                /\ f_raised # "none" /\ f_error = f_raised
           /\ f_exit \in ExitKinds
           /\ s.log[Len(s.log)] = "close"
           /\ ~s.open /\ ~s.tx

\* get_db: a statement ran, the body ended normally and the commit raised
C10_Witness ==
    /\ f_api = "get_db" /\ f_pc = "done"
    /\ f_exit = "normal" /\ f_error = "CommitError"
    /\ sessions[1].log = <<"commit", "rollback", "close">>

---------------------------------------------------------------------------
(* C11: the shared connection factory is initialised exactly once per      *)
(* process, whatever the interleaving of the threads' first calls:         *)
(* create_engine is called at most once (and so is sessionmaker), every    *)
(* get_engine call returns the same engine and every get_sessionmaker call  *)
(* the same factory.                                                       *)
AllResults == UNION {Range(t_results[t]) : t \in Threads}

\* C11: one engine, one factory, and equal results of equal calls
C11_InitializedOnce ==
    /\ g_engines <= 1
    /\ g_factories <= 1
    /\ \A a, b \in AllResults : a.api = b.api => a = b

---------------------------------------------------------------------------
(* C12: run_resource fails for an unknown resource, for a grouping mode     *)
(* other than "cases" / "patients", and for a requested requires_cases      *)
(* field with a grouping mode other than "cases"; in each of these         *)
(* failures no session was opened, the query function was not invoked,     *)
(* nothing is at the output destination and the sink holds no record.      *)
C12_BadCall ==
    \/ r_resource # "demographics"
    \/ r_by \notin {"cases", "patients"}
    \/ /\ ~r_fields.isNone
       /\ r_by # "cases"
       /\ Range(r_fields.v) \cap
             {"case_number", "case_admission_time", "case_discharge_time",
              "patient_age_at_admission"} # {}

\* C12: a call with one of these faults fails before any effect
C12_PrecheckFailures ==
    (r_pc # "ready" /\ C12_BadCall) =>
        /\ r_pc = "failed"
        /\ r_error \in {"UnknownResource", "InvalidGroupingMode",
                         "GroupingModeFieldMismatch"}
        /\ f_calls = <<>> /\ sessions = <<>> /\ f_pc = "idle"
        /\ r_dest = "untouched"
        /\ a_fh = <<>> /\ a_calls = <<>>

\* a call by patients that asks for a case field failed in the plan
C12_Witness ==
    /\ r_pc = "failed"
    /\ r_resource = "demographics" /\ r_by = "patients" /\ r_audit
    /\ r_fields = Some(<<"patient_age_at_admission">>)
    /\ r_error = "GroupingModeFieldMismatch"

---------------------------------------------------------------------------
(* C13: for an empty requested field list the planner returns              *)
(* fetch_fields = None and include_fields = None, as it does for None.      *)
C13_EmptyRequestIsNone ==
    (p_pc = "returned" /\ p_requested = Some(<<>>)) =>
        p_result = [fetch_fields |-> None, include_fields |-> None]

---------------------------------------------------------------------------
(* C14: include_fields is the request with duplicates removed, each name    *)
(* at its first occurrence; fetch_fields has no duplicate, starts with the  *)
(* requested non-derived fields in request order and continues with the    *)
(* dependencies not already present, ordered by the position of the first  *)
(* requested derived field that depends on them.                           *)
DupFree(q) == \A a, b \in 1..Len(q) : q[a] = q[b] => a = b

FirstIndex(q, x) == CHOOSE k \in 1..Len(q) : q[k] = x /\ \A j \in 1..(k - 1) : q[j] # x

\* position in the request of the first derived field that depends on d
FirstDependent(q, d) ==
    CHOOSE k \in 1..Len(q) :
        /\ q[k] \in DOMAIN DEMOGRAPHICS_SPEC.derived_deps
        /\ d \in DEMOGRAPHICS_SPEC.derived_deps[q[k]]
        /\ \A j \in 1..(k - 1) :
              ~(q[j] \in DOMAIN DEMOGRAPHICS_SPEC.derived_deps
                /\ d \in DEMOGRAPHICS_SPEC.derived_deps[q[j]])

\* C14: the order and the duplicate-freeness of both lists of the plan
C14_PlanOrder ==
    (p_pc = "returned" /\ ~p_requested.isNone) =>
        LET req     == p_requested.v
            inc     == p_result.include_fields.v
            fetch   == p_result.fetch_fields.v
            derived == DOMAIN DEMOGRAPHICS_SPEC.derived_deps
            plain   == SelectSeq(inc, LAMBDA f : f \notin derived)
            deps    == UNION {DEMOGRAPHICS_SPEC.derived_deps[n] : n \in Range(req) \cap derived}
            rest    == SubSeq(fetch, Len(plain) + 1, Len(fetch))
        IN /\ ~p_result.include_fields.isNone /\ ~p_result.fetch_fields.isNone
           /\ DupFree(inc) /\ Range(inc) = Range(req)
           /\ \A a, b \in 1..Len(inc) :
                 a < b => FirstIndex(req, inc[a]) < FirstIndex(req, inc[b])
           /\ DupFree(fetch)
           /\ Len(fetch) >= Len(plain) /\ SubSeq(fetch, 1, Len(plain)) = plain
           /\ Range(rest) = deps \ Range(plain)
           /\ \A a, b \in 1..Len(rest) :
                 a < b => FirstDependent(req, rest[a]) <= FirstDependent(req, rest[b])

\* a request that repeats a name and lists the derived field whose two
\* dependencies come last before the one that shares a dependency with it
C14_Witness ==
    /\ p_pc = "returned"
    /\ p_requested = Some(<<"patient_age_at_admission", "patient_sex",
                            "patient_age_at_admission">>)
    /\ p_result.include_fields = Some(<<"patient_age_at_admission", "patient_sex">>)
    /\ Len(p_result.fetch_fields.v) = 3
    /\ p_result.fetch_fields.v[1] = "patient_sex"

---------------------------------------------------------------------------
(* C15: whenever the caller requested fields, the table run_resource       *)
(* builds has exactly the columns of include_fields, in that order.        *)
RunValidated ==
    \/ r_pc \in {"persist", "audit", "done"}
    \/ r_pc = "failed" /\ r_error \in {"UnsupportedOutputFormat", "WriteError"}

\* C15: with requested fields, the table's columns are include_fields
C15_ExactlyIncludeColumns ==
    (RunValidated /\ ~r_fields.isNone /\ r_fields.v # <<>>) =>
        r_columns = r_include_fields.v

---------------------------------------------------------------------------
(* C16: the table run_resource builds has exactly one row per Row that     *)
(* passed validation, in fetch order.                                      *)
RunRowValid(r) == RowValidates(FetchedColumns(r_by, r_fetch_fields), r)

\* C16: for a mixed batch, the table's rows are the valid rows, in order
C16_OneRowPerValidRow ==
    (/\ RunValidated
     /\ \E k \in 1..Len(f_delivered) : RunRowValid(f_delivered[k])
     /\ \E k \in 1..Len(f_delivered) : ~RunRowValid(f_delivered[k])) =>
        r_df = SelectSeq(f_delivered, RunRowValid)

---------------------------------------------------------------------------
(* C17: _validate_with_model ends for every batch; each row has either its  *)
(* Record among the kept ones or one error entry with its (0-based) index,  *)
(* never both; rows after a failing row are processed; kept Records are in  *)
(* the order of their rows.                                                *)
C17_ValidateTotal ==
    RunValidated =>
        LET rows == f_delivered
            bad  == {k \in 1..Len(rows) : ~RunRowValid(rows[k])}
        IN /\ Len(r_cleaned) + Len(r_errors) = Len(rows)
           /\ r_cleaned = SelectSeq(rows, RunRowValid)
           /\ Range(r_errors) = {k - 1 : k \in bad}
           /\ \A a, b \in 1..Len(r_errors) : a < b => r_errors[a] < r_errors[b]

\* a valid row, a failing row and a valid row after it
C17_Witness ==
    /\ r_pc = "persist"
    /\ Len(f_delivered) = 3
    /\ r_errors = <<1>>
    /\ r_cleaned = <<f_delivered[1], f_delivered[3]>>

---------------------------------------------------------------------------
(* C18: a run_resource call that returns has, when it was given a sink,     *)
(* appended one record followed by its line terminator, both flushed, and   *)
(* without a sink nothing; the table it returns is the shaped table of the  *)
(* kept Records, with or without a sink and with or without an output      *)
(* destination.                                                            *)
C18_OneFlushedLine ==
    r_pc = "done" =>
        /\ r_audit => /\ Len(a_fh) = 2 /\ ~a_fh[1].nl /\ a_fh[2].nl
                      /\ a_flushed = 2
                      /\ Len(a_calls) = 1
        /\ ~r_audit => (a_fh = <<>> /\ a_calls = <<>>)
        /\ r_error = "none"
        /\ LET dfcols == DataFrameColumns(FetchedColumns(r_by, r_fetch_fields),
                                          r_include_fields, r_cleaned)
           IN /\ r_df = EnforceOrderRows(dfcols, r_include_fields, r_cleaned)
              /\ r_columns = EnforceOrderColumns(dfcols, r_include_fields)

\* a call with a sink and without an output destination returned a table
C18_Witness ==
    /\ r_pc = "done" /\ r_audit /\ r_out = NoneStr
    /\ r_df # <<>> /\ r_dest = "untouched"
    /\ a_flushed = 2

---------------------------------------------------------------------------
(* C19: when the query function raises, run_resource fails with that       *)
(* error; when the output format is unsupported it fails with that error;   *)
(* in both cases no file is at the output destination and the sink holds   *)
(* no record.  (_write_df has by then created the destination's missing    *)
(* parent directory.)                                                      *)
C19_FailureLeavesNothing ==
    /\ (r_pc \in {"persist", "audit", "done", "failed"} /\ f_raised = "QueryError") =>
          /\ r_pc = "failed" /\ r_error = "QueryError"
          /\ r_dest = "untouched"
          /\ a_fh = <<>>
    /\ (/\ r_pc \in {"audit", "done", "failed"}
        /\ ~(r_out.isNone \/ r_out.v = "")
        /\ WriteFormat(r_out, r_out_format) \notin {"csv", "parquet", "pq", "jsonl"}) =>
          /\ r_pc = "failed" /\ r_error = "UnsupportedOutputFormat"
          /\ r_dest \in {"untouched", "parent_dir"}
          /\ a_fh = <<>>

\* rows were fetched and validated, and the format taken from the
\* destination's suffix is not one _write_df writes
C19_Witness ==
    /\ r_pc = "failed" /\ r_audit
    /\ r_error = "UnsupportedOutputFormat"
    /\ r_out = Some("out/x.xlsx") /\ r_out_format = NoneStr
    /\ r_df # <<>>

---------------------------------------------------------------------------
(* C20: when run_resource is given more identifiers than the chunk size,    *)
(* the query function is invoked once per chunk, each time with at most a   *)
(* chunk of identifiers, on one session.                                   *)
C20_RunFetchesInChunks ==
    (RunValidated /\ Len(r_ids) > MaxItems) =>
        /\ Len(f_calls) > 1
        /\ \A k \in 1..Len(f_calls) : Len(f_calls[k].arg.ids) <= MaxItems
        /\ Len(sessions) = 1

---------------------------------------------------------------------------
(* C21: in a dumped Record a hashable field is a digest if and only if a    *)
(* non-empty salt was supplied, and plain text with None or an empty salt; *)
(* a field not declared hashable is never altered; a hashable field that   *)
(* is excluded is neither hashed nor emitted.                              *)
SaltSupplied(salt) == ~salt.isNone /\ salt.v # <<>>

\* (excluded_by_default union exclude) minus include, from the arguments
Suppressed(include, exclude) ==
    LET inc == IF include.isNone THEN {} ELSE include.v
        exc == IF exclude.isNone THEN {} ELSE exclude.v
    IN {f \in DumpFields : (f \in excluded_by_default \/ f \in exc) /\ f \notin inc}

C21_HashedIffSalted ==
    s_pc = "dumped" =>
        /\ \A f \in hashable_fields :
              IF f \in Suppressed(s_include, s_exclude)
              THEN s_out[f] = AbsentV
              ELSE s_obj.val[f].k = "str" =>
                     /\ SaltSupplied(s_salt) =>
                           /\ s_out[f] = StrV(SubSeq(Sha256Hex(s_salt.v \o s_obj.val[f].s),
                                                     1, DefaultLength))
                           /\ s_out[f] # s_obj.val[f]
                     /\ ~SaltSupplied(s_salt) => s_out[f] = s_obj.val[f]
        /\ \A f \in DumpFields \ hashable_fields :
              s_out[f] \in {AbsentV, s_obj.val[f]}

\* a Record dumped with a salt: its case number is a digest, its sex is
\* the text the object holds
C21_Witness ==
    /\ s_pc = "dumped" /\ SaltSupplied(s_salt)
    /\ s_out["case_number"].k = "str"
    /\ s_out["case_number"] # s_obj.val["case_number"]
    /\ s_out["patient_sex"].k = "str"
    /\ s_out["patient_sex"] = s_obj.val["patient_sex"]

---------------------------------------------------------------------------
(* C22: for every include set and exclude set, a field the object holds    *)
(* (set and not None) is missing from the dump exactly when it is in       *)
(* (excluded_by_default union exclude) minus include; a field of that set  *)
(* is never in the dump; a field named in both include and exclude is      *)
(* included.                                                               *)
Held(obj, f) == f \in obj.set /\ obj.val[f].k # "none"

C22_SuppressedExactly ==
    s_pc = "dumped" =>
        \A f \in DumpFields :
            /\ f \in Suppressed(s_include, s_exclude) => s_out[f] = AbsentV
            /\ Held(s_obj, f) =>
                  (s_out[f] = AbsentV <=> f \in Suppressed(s_include, s_exclude))

\* the birth date, excluded by default and named in both include and
\* exclude, is in the dump
C22_Witness ==
    /\ s_pc = "dumped"
    /\ ~s_include.isNone /\ "patient_date_of_birth" \in s_include.v
    /\ ~s_exclude.isNone /\ "patient_date_of_birth" \in s_exclude.v
    /\ s_out["patient_date_of_birth"].k = "date"
    /\ s_out["patient_sex"] = AbsentV /\ Held(s_obj, "patient_sex")

---------------------------------------------------------------------------
(* C23: for every Row, whatever its mapping type, the value of a field     *)
(* that has a normalization map is trimmed and case-folded before lookup,  *)
(* None, empty and whitespace-only values become absent, an unmapped value *)
(* becomes the configured default, and this happens before type            *)
(* validation: the validated object holds the normalized value.            *)
C23_EveryRowNormalized ==
    (s_pc \in {"validated", "dumped"} /\ s_row.val["patient_sex"].k # "absent") =>
        s_obj.val["patient_sex"] =
            NormalizeValue(normalization_maps.patient_sex, s_row.val["patient_sex"])

---------------------------------------------------------------------------
(* C24: hash_value is a function of (value, salt): with a non-empty salt   *)
(* the result is exactly 12 hexadecimal characters whatever the length of  *)
(* the value and is the same on every call; with None or an empty salt it  *)
(* is the value.                                                           *)
HexDigitSet == {HexDigits[k] : k \in 1..Len(HexDigits)}

C24_HashValueDeterministic ==
    \A j \in 1..Len(h_results) :
        /\ (~h_salt.isNone /\ h_salt.v # <<>>) =>
              /\ Len(h_results[j]) = 12
              /\ \A k \in 1..Len(h_results[j]) : h_results[j][k] \in HexDigitSet
        /\ (h_salt.isNone \/ h_salt.v = <<>>) => h_results[j] = h_value
        /\ \A k \in 1..Len(h_results) : h_results[j] = h_results[k]

\* a value longer than the digest was hashed twice with one non-empty salt
C24_Witness ==
    /\ Len(h_results) = MaxHashCalls
    /\ ~h_salt.isNone /\ h_salt.v # <<>>
    /\ Len(h_value) > 12
    /\ Len(h_results[1]) = 12

---------------------------------------------------------------------------
(* C25: a value the Row supplies for patient_age_today or                  *)
(* patient_age_at_admission is the value of the object and of the Record,  *)
(* whatever birth date and admission time the row carries.                 *)
DerivedAgeFields == {"patient_age_today", "patient_age_at_admission"}

C25_SuppliedAgeKept ==
    \A f \in DerivedAgeFields :
        s_row.val[f].k = "int" =>
            /\ s_pc \in {"validated", "dumped"} => s_obj.val[f] = s_row.val[f]
            /\ s_pc = "dumped" => s_out[f] = s_row.val[f]

\* both ages were supplied with a value the derivation would not compute,
\* on a row that carries a birth date and an admission time
C25_Witness ==
    /\ s_pc = "dumped"
    /\ s_row.val["patient_date_of_birth"].k = "date"
    /\ s_row.val["case_admission_time"].k = "date"
    /\ s_row.val["patient_age_today"] = IntV(0)
    /\ s_row.val["patient_age_at_admission"] = IntV(0)
    /\ Age(s_row.val["patient_date_of_birth"], s_started) # 0
    /\ Age(s_row.val["patient_date_of_birth"], s_row.val["case_admission_time"]) # 0
    /\ s_out["patient_age_today"] = IntV(0)
    /\ s_out["patient_age_at_admission"] = IntV(0)

---------------------------------------------------------------------------
(* C27: a derived patient_age_today is the age on the date at which the    *)
(* row is validated, also after the date has changed since the process     *)
(* started; a derived patient_age_at_admission is the age on the row's     *)
(* admission date.                                                         *)
C27_AgeAsOfValidationDay ==
    (s_pc \in {"validated", "dumped"} /\ s_row.val["patient_date_of_birth"].k = "date") =>
        LET dob == s_row.val["patient_date_of_birth"]
            adm == s_row.val["case_admission_time"]
        IN /\ s_row.val["patient_age_today"].k # "int" =>
                 s_obj.val["patient_age_today"] = IntV(Age(dob, s_validated_on))
           /\ (s_row.val["patient_age_at_admission"].k # "int" /\ adm.k = "date") =>
                 s_obj.val["patient_age_at_admission"] = IntV(Age(dob, adm))

---------------------------------------------------------------------------
(* C26: run_resource for resource "demographics" with grouping "patients", *)
(* two identifiers and no field list returns a table whose columns are     *)
(* patient_id, patient_date_of_birth, patient_sex, with one row per row    *)
(* the store delivered for the identifiers.                                *)
C26_PatientsDefaultTable ==
    (/\ r_pc = "done"
     /\ r_resource = "demographics" /\ r_by = "patients"
     /\ Len(r_ids) = 2 /\ r_fields = None) =>
        /\ r_columns = <<"patient_id", "patient_date_of_birth", "patient_sex">>
        /\ Len(r_df) = Len(f_delivered)

---------------------------------------------------------------------------
(* C28: for every AuditLogger configuration, one constructed with an       *)
(* empty-string salt included, every value under the key hashed_ids is a   *)
(* salted digest and differs from the raw identifier it stands for; raw    *)
(* identifiers appear only under the key ids, and only when no salt was    *)
(* given.                                                                  *)
C28_HashedIdsAreDigests ==
    \A k \in 1..Len(WrittenRecords) :
        LET summary == WrittenRecords[k].rec.ids
            raw     == a_calls[k].ids
        IN /\ summary.key = "hashed_ids" =>
                 \A j \in 1..Len(summary.values) :
                     /\ summary.values[j].h
                     /\ summary.values[j] # raw[j]
           /\ summary.key = "ids" => ~a_logger.hash_ids
           /\ (\E j \in 1..Len(summary.values) : ~summary.values[j].h) =>
                 summary.key = "ids"

---------------------------------------------------------------------------
(* C29: in the eager access pattern every row is read from the query       *)
(* function's result while the scoped session is open, also when the       *)
(* query function returns a lazy iterable: the session is committed and    *)
(* closed only after all rows have been materialized.                      *)
C29_RowsReadWhileOpen ==
    /\ \A k \in 1..Len(c_reads) : c_reads[k]
    /\ (c_sessions # <<>> /\ ~c_sessions[1].open /\ c_error = "none") =>
          Len(c_reads) = Len(QueryRows(ListVal(c_ids)))

---------------------------------------------------------------------------
(* C30: when several concurrent run_resource calls share one AuditLogger,  *)
(* every line of the log is exactly one complete record: in every          *)
(* interleaving the text of two records is never in one line, each record  *)
(* is followed by its own line terminator, and no record is lost.          *)
C30_OneRecordPerLine ==
    /\ \A k \in 1..Len(a_fh) :
          IF a_fh[k].nl
          THEN k > 1 /\ ~a_fh[k - 1].nl
          ELSE k < Len(a_fh) => a_fh[k + 1].nl
    /\ (\A t \in LogThreads : l_pc[t] = "returned") =>
          /\ Len(WrittenRecords) = NThreads
          /\ \A t \in LogThreads :
                \E k \in 1..Len(a_fh) :
                    a_fh[k] = JsonPiece(AuditRecord(a_logger, l_kw[t]))

===========================================================================
